---- MODULE Spec2Model ----
(***************************************************************************)
(* A model of the catalog/index engine of src/main.js: the content         *)
(* extractor (FileContentExtractor), the catalog and its six inverted      *)
(* indexes (EnhancedHybridFileDB), the ranked search, the batched          *)
(* ingestion (addScan, driven by scanDrive) and the retention operations   *)
(* (cleanupOldScans, delete-scan, clear-database).                         *)
(*                                                                         *)
(* Conventions.                                                            *)
(*  - A JavaScript string is a sequence of one-character strings, so that  *)
(*    toLowerCase, includes, startsWith, split and substring are computed  *)
(*    character by character as the code computes them.                    *)
(*  - A JavaScript Map is a sequence of entries [key, ids] in insertion    *)
(*    order; a Set or array of ordinals is a sequence in insertion order.  *)
(*  - Ordinals of data.files are 1-based here (0-based in the code).       *)
(*  - Paths follow the POSIX flavour of Node's path module (path.sep "/"). *)
(*  - Instants (Date.now(), scanDate) are integer clock readings; the      *)
(*    ISO string of scanDate round-trips through new Date() to the same    *)
(*    millisecond, so scanDate is kept as the clock reading itself.        *)
(*  - The record fields modified, created and addedAt are carried through  *)
(*    the code untouched and read by no operation; they are left out.      *)
(***************************************************************************)
EXTENDS Integers, Sequences, FiniteSets, TLC

(***************************************************************************)
(* Characters and strings                                                  *)
(***************************************************************************)
UpperLetters ==
  <<"A","B","C","D","E","F","G","H","I","J","K","L","M",
    "N","O","P","Q","R","S","T","U","V","W","X","Y","Z">>

LowerLetters ==
  <<"a","b","c","d","e","f","g","h","i","j","k","l","m",
    "n","o","p","q","r","s","t","u","v","w","x","y","z">>

DigitChars == <<"0","1","2","3","4","5","6","7","8","9">>

Range(s) == { s[i] : i \in DOMAIN s }

\* Body at the value of e: e is evaluated once, as an assignment to a local
\* constant is.
WithValue(e, Body(_)) == CHOOSE r \in { Body(v) : v \in {e} } : TRUE

LowerMap ==
  [c \in Range(UpperLetters) |->
      LowerLetters[CHOOSE i \in DOMAIN UpperLetters : UpperLetters[i] = c]]

\* String.prototype.toLowerCase, on the ASCII letters.
toLowerCase(s) ==
  [i \in 1..Len(s) |-> IF s[i] \in DOMAIN LowerMap THEN LowerMap[s[i]] ELSE s[i]]

\* The regular expression class \w: [A-Za-z0-9_].
WordChars ==
  Range(UpperLetters) \cup Range(LowerLetters) \cup Range(DigitChars) \cup {"_"}

\* The regular expression class \s, on the whitespace the model writes.
SpaceChars == {" ", "\n", "\t", "\r"}

\* String.prototype.includes.
includes(s, q) ==
  \E i \in 0..(Len(s) - Len(q)) : SubSeq(s, i + 1, i + Len(q)) = q

\* String.prototype.startsWith.
startsWith(s, p) ==
  /\ Len(p) <= Len(s)
  /\ SubSeq(s, 1, Len(p)) = p

\* Whether pat occurs in s at position i (1-based).
matchAt(s, i, pat) ==
  /\ i >= 1
  /\ i + Len(pat) - 1 <= Len(s)
  /\ SubSeq(s, i, i + Len(pat) - 1) = pat

\* String.prototype.split(/\s+/): a run of whitespace is one separator, and a
\* leading or trailing run leaves an empty first or last piece.
RECURSIVE splitSpaces(_, _, _, _)
splitSpaces(s, i, cur, inSep) ==
  IF i > Len(s) THEN <<cur>>
  ELSE IF s[i] \in SpaceChars
       THEN IF inSep THEN splitSpaces(s, i + 1, cur, TRUE)
            ELSE <<cur>> \o splitSpaces(s, i + 1, <<>>, TRUE)
       ELSE splitSpaces(s, i + 1, Append(cur, s[i]), FALSE)

\* String.prototype.split(sep) for a one-character separator.
RECURSIVE splitChar(_, _, _, _)
splitChar(s, sep, i, cur) ==
  IF i > Len(s) THEN <<cur>>
  ELSE IF s[i] = sep
       THEN <<cur>> \o splitChar(s, sep, i + 1, <<>>)
       ELSE splitChar(s, sep, i + 1, Append(cur, s[i]))

\* Array.prototype.slice(0, n), negative n counting from the end.
slice0(s, n) ==
  IF n >= 0 THEN SubSeq(s, 1, IF n < Len(s) THEN n ELSE Len(s))
  ELSE SubSeq(s, 1, IF Len(s) + n > 0 THEN Len(s) + n ELSE 0)

Min(a, b) == IF a <= b THEN a ELSE b

\* Array.prototype.reduce((sum, x) => sum + x, 0) over a sequence of numbers.
sumSeq(s) ==
  WithValue(s, LAMBDA v :
    LET sum[n \in 0..Len(v)] == IF n = 0 THEN 0 ELSE sum[n - 1] + v[n]
    IN  sum[Len(v)])

\* The concatenation of a sequence of sequences.
flatten(ss) ==
  WithValue(ss, LAMBDA v :
    LET flat[n \in 0..Len(v)] == IF n = 0 THEN <<>> ELSE flat[n - 1] \o v[n]
    IN  flat[Len(v)])

(***************************************************************************)
(* Node's path module (POSIX flavour), as far as the code uses it          *)
(***************************************************************************)
sep == "/"

\* String.prototype.trim.
RECURSIVE trimStart(_)
trimStart(s) ==
  IF s # <<>> /\ Head(s) \in SpaceChars THEN trimStart(Tail(s)) ELSE s

RECURSIVE trimEnd(_)
trimEnd(s) ==
  IF s # <<>> /\ s[Len(s)] \in SpaceChars THEN trimEnd(SubSeq(s, 1, Len(s) - 1)) ELSE s

trim(s) == trimEnd(trimStart(s))

\* path.basename: the last portion of the path, trailing separators ignored.
basename(p) ==
  LET q == IF \E i \in 1..Len(p) : p[i] # sep
           THEN SubSeq(p, 1, CHOOSE i \in 1..Len(p) :
                               /\ p[i] # sep
                               /\ \A j \in (i + 1)..Len(p) : p[j] = sep)
           ELSE <<>>
      parts == splitChar(q, sep, 1, <<>>)
  IN  parts[Len(parts)]

\* path.extname: from the last "." of the basename to its end; empty when there
\* is no ".", when the only "." is the first character, or for "..".
extname(p) ==
  LET b == basename(p)
      dots == { i \in 1..Len(b) : b[i] = "." }
      startDot == CHOOSE i \in dots : \A j \in dots : j <= i
  IN  IF dots = {} THEN <<>>
      ELSE IF startDot = 1 THEN <<>>
      ELSE IF b = <<".", ".">> THEN <<>>
      ELSE SubSeq(b, startDot, Len(b))

\* normalizeString of path.normalize: drops empty and "." segments and resolves
\* ".." against the segment before it.
RECURSIVE normalizeSegments(_, _, _)
normalizeSegments(parts, acc, allowAboveRoot) ==
  IF parts = <<>> THEN acc
  ELSE LET s == Head(parts) IN
       IF s = <<>> \/ s = <<".">>
       THEN normalizeSegments(Tail(parts), acc, allowAboveRoot)
       ELSE IF s = <<".", ".">>
       THEN IF acc # <<>> /\ acc[Len(acc)] # <<".", ".">>
            THEN normalizeSegments(Tail(parts), SubSeq(acc, 1, Len(acc) - 1), allowAboveRoot)
            ELSE IF allowAboveRoot
                 THEN normalizeSegments(Tail(parts), Append(acc, s), allowAboveRoot)
                 ELSE normalizeSegments(Tail(parts), acc, allowAboveRoot)
       ELSE normalizeSegments(Tail(parts), Append(acc, s), allowAboveRoot)

RECURSIVE joinSegments(_)
joinSegments(parts) ==
  IF parts = <<>> THEN <<>>
  ELSE IF Len(parts) = 1 THEN Head(parts)
  ELSE Head(parts) \o <<sep>> \o joinSegments(Tail(parts))

\* path.normalize.
pathNormalize(p) ==
  IF p = <<>> THEN <<".">>
  ELSE LET isAbsolute == p[1] = sep
           trailingSeparator == p[Len(p)] = sep
           body == joinSegments(
                     normalizeSegments(splitChar(p, sep, 1, <<>>), <<>>, ~isAbsolute))
       IN  IF body = <<>>
           THEN IF isAbsolute THEN <<sep>>
                ELSE IF trailingSeparator THEN <<".", sep>> ELSE <<".">>
           ELSE (IF isAbsolute THEN <<sep>> ELSE <<>>)
                \o body
                \o (IF trailingSeparator THEN <<sep>> ELSE <<>>)

\* path.join of two non-empty arguments.
pathJoin(a, b) == pathNormalize(a \o <<sep>> \o b)

\* normalizePath (off win32 it is path.normalize).
normalizePath(filePath) == pathNormalize(filePath)

(***************************************************************************)
(* The file system the scans read (the environment).  A directory lists    *)
(* its entries in readdir order; a file carries what fs.stat and           *)
(* fs.readFile give for it (readable = FALSE: the read fails, EACCES).     *)
(***************************************************************************)
fsTree ==
  <<
    [dir |-> <<"/", "a">>, entries |-> <<
      [name |-> <<"A", "B">>, isDirectory |-> FALSE, size |-> 1,
        content |-> <<>>, readable |-> TRUE, mtime |-> <<>>],
      [name |-> <<"a", "b">>, isDirectory |-> TRUE, size |-> 4096,
        content |-> <<>>, readable |-> TRUE, mtime |-> <<>>],
      [name |-> <<"a", "b", ".", "c">>, isDirectory |-> FALSE, size |-> 7,
        content |-> <<"#", " ", "A", "b", "\n", "c", "d">>, readable |-> TRUE, mtime |-> <<>>],
      [name |-> <<"a", "-">>, isDirectory |-> FALSE, size |-> 1,
        content |-> <<>>, readable |-> TRUE, mtime |-> <<>>] >>],
    [dir |-> <<"/", "a", "/", "a", "b">>, entries |-> <<
      [name |-> <<"c", ".", "C">>, isDirectory |-> FALSE, size |-> 3,
        content |-> <<"a", "b", "c">>, readable |-> FALSE, mtime |-> <<>>],
      [name |-> <<"d", ".", "c">>, isDirectory |-> FALSE, size |-> 5 * 1024 * 1024 + 1,
        content |-> <<>>, readable |-> TRUE, mtime |-> <<>>],
      [name |-> <<"1">>, isDirectory |-> FALSE, size |-> 1,
        content |-> <<>>, readable |-> TRUE, mtime |-> <<>>],
      [name |-> <<"2">>, isDirectory |-> FALSE, size |-> 1,
        content |-> <<>>, readable |-> TRUE, mtime |-> <<>>],
      [name |-> <<"3">>, isDirectory |-> FALSE, size |-> 1,
        content |-> <<>>, readable |-> TRUE, mtime |-> <<>>],
      [name |-> <<"4">>, isDirectory |-> FALSE, size |-> 1,
        content |-> <<>>, readable |-> TRUE, mtime |-> <<>>],
      [name |-> <<"5">>, isDirectory |-> FALSE, size |-> 1,
        content |-> <<>>, readable |-> TRUE, mtime |-> <<>>],
      [name |-> <<"6">>, isDirectory |-> FALSE, size |-> 1,
        content |-> <<>>, readable |-> TRUE, mtime |-> <<>>],
      [name |-> <<"7">>, isDirectory |-> FALSE, size |-> 1,
        content |-> <<>>, readable |-> TRUE, mtime |-> <<>>],
      [name |-> <<"p", ".", "c", "d">>, isDirectory |-> FALSE, size |-> 1,
        content |-> <<>>, readable |-> TRUE, mtime |-> <<>>],
      [name |-> <<"s", ".", "c">>, isDirectory |-> FALSE, size |-> 6,
        content |-> <<"s", ".", "c", " ", "a", "b">>, readable |-> TRUE, mtime |-> <<>>] >>],
    [dir |-> <<"/", "m">>, entries |-> <<
      [name |-> <<"r", "e", "a", "d", "m", "e", ".", "m", "d">>, isDirectory |-> FALSE, size |-> 7,
        content |-> <<"#", " ", "H", "e", "l", "l", "o">>, readable |-> TRUE, mtime |-> <<>>],
      [name |-> <<"n", "o", "t", "e", "s", ".", "t", "x", "t">>, isDirectory |-> FALSE, size |-> 11,
        content |-> <<"h", "e", "l", "l", "o", " ", "w", "o", "r", "l", "d">>, readable |-> TRUE, mtime |-> <<>>],
      [name |-> <<"p", "h", "o", "t", "o", ".", "p", "n", "g">>, isDirectory |-> FALSE, size |-> 1,
        content |-> <<>>, readable |-> TRUE, mtime |-> <<>>] >>],
    [dir |-> <<"/", "j">>, entries |-> <<
      [name |-> <<"q", ".", "p", "d", "f">>, isDirectory |-> FALSE, size |-> 1,
        content |-> <<>>, readable |-> TRUE, mtime |-> <<>>],
      [name |-> <<"k", ".", "j", "s", "o", "n">>, isDirectory |-> FALSE, size |-> 11,
        content |-> <<"{", "\"", "t", "i", "t", "l", "e", "\"", ":", "7", "}">>,
        readable |-> TRUE, mtime |-> <<>>],
      [name |-> <<"z">>, isDirectory |-> FALSE, size |-> 1,
        content |-> <<>>, readable |-> TRUE, mtime |-> <<>>],
      [name |-> <<"d", ".", "m", "d">>, isDirectory |-> TRUE, size |-> 4096,
        content |-> <<>>, readable |-> TRUE, mtime |-> <<>>] >>],
    [dir |-> <<"/", "M">>, entries |-> <<
      [name |-> <<"n">>, isDirectory |-> FALSE, size |-> 1,
        content |-> <<>>, readable |-> TRUE, mtime |-> <<>>] >>]
  >>

\* The directory a path names: fs resolves the path, so "/a//" names "/a".
fsResolve(p) ==
  LET n == pathNormalize(p)
  IN  IF Len(n) > 1 /\ n[Len(n)] = sep THEN SubSeq(n, 1, Len(n) - 1) ELSE n

fsIsDir(p) == \E i \in DOMAIN fsTree : fsTree[i].dir = fsResolve(p)

\* fs.readdir(dirPath, {withFileTypes: true}).
fsReaddir(dirPath) ==
  IF fsIsDir(dirPath)
  THEN fsTree[CHOOSE i \in DOMAIN fsTree : fsTree[i].dir = fsResolve(dirPath)].entries
  ELSE <<>>

\* The entry a file path names, if any.
fsHasEntry(p) ==
  LET r == fsResolve(p) IN
  \E i \in DOMAIN fsTree : \E j \in DOMAIN fsTree[i].entries :
     pathJoin(fsTree[i].dir, fsTree[i].entries[j].name) = r

fsEntry(p) ==
  LET r == fsResolve(p)
      ij == CHOOSE ij \in UNION { { <<i, j>> : j \in DOMAIN fsTree[i].entries } :
                                    i \in DOMAIN fsTree } :
              pathJoin(fsTree[ij[1]].dir, fsTree[ij[1]].entries[ij[2]].name) = r
  IN  fsTree[ij[1]].entries[ij[2]]

(***************************************************************************)
(* FileContentExtractor                                                    *)
(***************************************************************************)
textExtensions ==
  { <<".", "t", "x", "t">>, <<".", "m", "d">>, <<".", "j", "s">>, <<".", "t", "s">>,
    <<".", "j", "s", "x">>, <<".", "t", "s", "x">>, <<".", "h", "t", "m", "l">>, <<".", "h", "t", "m">>,
    <<".", "c", "s", "s">>, <<".", "j", "s", "o", "n">>, <<".", "x", "m", "l">>, <<".", "y", "m", "l">>,
    <<".", "y", "a", "m", "l">>, <<".", "i", "n", "i">>, <<".", "c", "f", "g">>, <<".", "l", "o", "g">>,
    <<".", "s", "q", "l">>, <<".", "p", "y">>, <<".", "j", "a", "v", "a">>, <<".", "c", "p", "p">>,
    <<".", "c">>, <<".", "h">>, <<".", "c", "s">>, <<".", "p", "h", "p">>,
    <<".", "r", "b">>, <<".", "g", "o">>, <<".", "s", "h">>, <<".", "b", "a", "t">>,
    <<".", "p", "s", "1">>, <<".", "v", "u", "e">>, <<".", "s", "v", "e", "l", "t", "e">>, <<".", "s", "c", "s", "s">>,
    <<".", "l", "e", "s", "s">> }

titleExtensions ==
  { <<".", "p", "d", "f">>, <<".", "d", "o", "c">>, <<".", "d", "o", "c", "x">>, <<".", "x", "l", "s">>,
    <<".", "x", "l", "s", "x">>, <<".", "p", "p", "t">>, <<".", "p", "p", "t", "x">> }

maxFileSize == 5 * 1024 * 1024

maxContentLength == 100 * 1024

\* The characters the regular expression "." does not match.
LineTerminators == {"\n", "\r"}

\* content.match(/<title>(.*?)<\/title>/i): the leftmost opening tag that has a
\* closing tag after it on the same line, up to the nearest such closing tag.
htmlTitleMatches(content) ==
  LET lc == toLowerCase(content) IN
  { m \in (1..Len(content)) \X (1..Len(content)) :
      /\ matchAt(lc, m[1], <<"<", "t", "i", "t", "l", "e", ">">>)
      /\ m[2] >= m[1] + 7
      /\ matchAt(lc, m[2], <<"<", "/", "t", "i", "t", "l", "e", ">">>)
      /\ \A k \in (m[1] + 7)..(m[2] - 1) : content[k] \notin LineTerminators }

htmlTitleGroup(content) ==
  WithValue(htmlTitleMatches(content), LAMBDA ms :
    WithValue(CHOOSE m \in ms : \A x \in ms : m[1] < x[1] \/ (m[1] = x[1] /\ m[2] <= x[2]),
              LAMBDA m : SubSeq(content, m[1] + 7, m[2] - 1)))

\* Array.prototype.find: the ordinal of the first element satisfying the test,
\* 0 when there is none.
findFirst(s, hits) ==
  IF \E i \in DOMAIN s : i \in hits
  THEN CHOOSE i \in DOMAIN s : i \in hits /\ \A j \in 1..(i - 1) : j \notin hits
  ELSE 0

\* /\/\/\s*title:|\/\*\s*title:|#\s*title:/i.test(line)
commentTitleTest(line) ==
  LET lc == toLowerCase(line) IN
  \E i \in 1..Len(lc) : \E k \in i..Len(lc) :
     /\ \/ (lc[i] = "#" /\ k = i)
        \/ (matchAt(lc, i, <<"/", "/">>) /\ k = i + 1)
        \/ (matchAt(lc, i, <<"/", "*">>) /\ k = i + 1)
     /\ \E t \in (k + 1)..Len(lc) :
          /\ \A w \in (k + 1)..(t - 1) : lc[w] \in SpaceChars
          /\ matchAt(lc, t, <<"t", "i", "t", "l", "e", ":">>)

\* commentTitle.match(/title:\s*(.+)/i): the positions just after a "title:" that
\* has at least one more character on its line.
titleMarkerEnds(line) ==
  LET lc == toLowerCase(line) IN
  { t \in 1..Len(lc) :
      /\ matchAt(lc, t, <<"t", "i", "t", "l", "e", ":">>)
      /\ t + 6 <= Len(lc)
      /\ \E k \in (t + 6)..Len(lc) :
           /\ line[k] \notin LineTerminators
           /\ \A w \in (t + 6)..(k - 1) : line[w] \in SpaceChars }

\* The group (.+) after the first such marker: \s* is greedy but leaves the last
\* character to (.+) when the rest of the line is blank; (.+) stops at a line
\* terminator.
titleMarkerBody(rest) ==
  WithValue(IF trimStart(rest) = <<>> THEN <<rest[Len(rest)]>> ELSE trimStart(rest),
            LAMBDA body :
    IF \A k \in 1..Len(body) : body[k] \notin LineTerminators THEN body
    ELSE SubSeq(body, 1,
                (CHOOSE k \in 1..Len(body) :
                   /\ body[k] \in LineTerminators
                   /\ \A j \in 1..(k - 1) : body[j] \notin LineTerminators) - 1))

titleMarkerGroup(line) ==
  WithValue(titleMarkerEnds(line), LAMBDA ends :
    titleMarkerBody(SubSeq(line, (CHOOSE x \in ends : \A y \in ends : x <= y) + 6,
                           Len(line))))

\* A JavaScript value that is no string: a number is written as the tag
\* "number" followed by its digits.  The elements of a string are single
\* characters, so no string starts with the tag.
numberValue(digits) == <<"number">> \o digits

isString(value) == value = <<>> \/ value[1] # "number"

\* JSON.parse of a file's contents, for the documents the modelled file system
\* holds: an object with one member, {"key":value}, whose value is a number
\* written in digits or a string without escapes.  Any other text of the file
\* system is no JSON (JSON.parse throws) and has no member.
jsonMember(content) ==
  LET n == Len(content)
      quotes == { i \in 3..n : content[i] = "\"" }
      q == CHOOSE i \in quotes : \A j \in quotes : i <= j
      value == SubSeq(content, q + 2, n - 1)
  IN  IF /\ n >= 6
         /\ content[1] = "{" /\ content[2] = "\"" /\ content[n] = "}"
         /\ quotes # {}
         /\ q + 2 <= n - 1
         /\ content[q + 1] = ":"
      THEN IF \A i \in 1..Len(value) : value[i] \in Range(DigitChars)
           THEN [parsed |-> TRUE, key |-> SubSeq(content, 3, q - 1),
                 value |-> numberValue(value), truthy |-> \E i \in 1..Len(value) : value[i] # "0"]
           ELSE IF /\ Len(value) >= 2
                   /\ value[1] = "\"" /\ value[Len(value)] = "\""
                   /\ \A i \in 2..(Len(value) - 1) : value[i] \notin {"\"", "\\", "\n"}
           THEN [parsed |-> TRUE, key |-> SubSeq(content, 3, q - 1),
                 value |-> SubSeq(value, 2, Len(value) - 1), truthy |-> Len(value) > 2]
           ELSE [parsed |-> FALSE, key |-> <<>>, value |-> <<>>, truthy |-> FALSE]
      ELSE [parsed |-> FALSE, key |-> <<>>, value |-> <<>>, truthy |-> FALSE]

\* if (json.title) return json.title; likewise json.name and json.displayName:
\* the value of the member if it is one of these and truthy, none (<<>>)
\* otherwise.
jsonTitle(content) ==
  WithValue(jsonMember(content), LAMBDA member :
    IF /\ member.parsed
       /\ member.truthy
       /\ member.key \in { <<"t", "i", "t", "l", "e">>, <<"n", "a", "m", "e">>,
                           <<"d", "i", "s", "p", "l", "a", "y", "N", "a", "m", "e">> }
    THEN member.value
    ELSE <<>>)

titleFromLines(content, fileName, lines) ==
  WithValue(<<findFirst(lines, { i \in DOMAIN lines :
                                  startsWith(trim(lines[i]), <<"#", " ">>) }),
              findFirst(lines, { i \in DOMAIN lines : commentTitleTest(lines[i]) }),
              findFirst(lines, { i \in DOMAIN lines : Len(trim(lines[i])) > 0 })>>,
            LAMBDA at :
    IF at[1] # 0
    THEN \* mdTitle.replace(/^#\s*/, '').trim()
         trim(IF lines[at[1]][1] = "#" THEN trimStart(Tail(lines[at[1]]))
              ELSE lines[at[1]])
    ELSE IF at[2] # 0 /\ titleMarkerEnds(lines[at[2]]) # {}
    THEN trim(titleMarkerGroup(lines[at[2]]))
    ELSE IF toLowerCase(extname(fileName)) = <<".", "j", "s", "o", "n">>
            /\ jsonTitle(content) # <<>>
    THEN jsonTitle(content)
    ELSE IF at[3] # 0 /\ Len(trim(lines[at[3]])) < 100
    THEN trim(lines[at[3]])
    ELSE fileName)

extractTitleFromContent(content, fileName) ==
  IF htmlTitleMatches(content) # {} THEN trim(htmlTitleGroup(content))
  ELSE WithValue(slice0(splitChar(content, "\n", 1, <<>>), 10),
                 LAMBDA lines : titleFromLines(content, fileName, lines))

\* The result objects of the extractor.  A field the code leaves out of the
\* object is left out of the record.
textResult(content, fileName) ==
  [title |-> extractTitleFromContent(content, fileName),
   content |-> IF Len(content) > maxContentLength
               THEN SubSeq(content, 1, maxContentLength)
                    \o <<".", ".", ".", "[", "t", "r", "u", "n", "c", "a", "t", "e", "d", "]">>
               ELSE content,
   extractable |-> TRUE,
   contentLength |-> Len(content),
   wordCount |-> Len(splitSpaces(content, 1, <<>>, FALSE))]

extractTextContent(filePath, fileName) ==
  IF ~fsHasEntry(filePath)
  THEN [title |-> fileName, content |-> <<>>, extractable |-> FALSE,
        reason |-> "Binary or encoding issue"]
  ELSE WithValue(fsEntry(filePath), LAMBDA entry :
         IF entry.isDirectory
         THEN [title |-> fileName, content |-> <<>>, extractable |-> FALSE,
               reason |-> "Directory"]
         ELSE IF ~entry.readable
         THEN [title |-> fileName, content |-> <<>>, extractable |-> FALSE,
               reason |-> "Binary or encoding issue"]
         ELSE textResult(entry.content, fileName))

\* Number.prototype.toString of a non-negative integer.
RECURSIVE toDecimal(_)
toDecimal(n) ==
  IF n < 10 THEN <<DigitChars[n + 1]>>
  ELSE toDecimal(n \div 10) \o <<DigitChars[(n % 10) + 1]>>

\* String.prototype.replace(pattern, '') for a string pattern: the first
\* occurrence is removed.
removeFirst(s, pat) ==
  IF pat # <<>> /\ includes(s, pat)
  THEN LET i == CHOOSE i \in 0..(Len(s) - Len(pat)) :
                  /\ SubSeq(s, i + 1, i + Len(pat)) = pat
                  /\ \A j \in 0..(i - 1) : SubSeq(s, j + 1, j + Len(pat)) # pat
       IN  SubSeq(s, 1, i) \o SubSeq(s, i + Len(pat) + 1, Len(s))
  ELSE s

extractDocumentTitle(filePath, fileName) ==
  IF fsHasEntry(filePath)
  THEN WithValue(fsEntry(filePath), LAMBDA stats :
       [title |-> removeFirst(fileName, extname(fileName)),
        content |-> <<"D", "o", "c", "u", "m", "e", "n", "t", ":", " ">> \o fileName
                    \o <<"\n", "S", "i", "z", "e", ":", " ">> \o toDecimal(stats.size)
                    \o <<" ", "b", "y", "t", "e", "s", "\n", "M", "o", "d", "i", "f", "i", "e", "d", ":", " ">>
                    \o stats.mtime,
        extractable |-> FALSE,
        reason |-> "Document parsing not implemented"])
  ELSE [title |-> fileName, content |-> <<>>, extractable |-> FALSE, reason |-> "ENOENT"]

\* A faulty extractor: it looks at the size of a file after it has read it.
extractContentReadingFirst(filePath, fileStats) ==
  LET ext == toLowerCase(extname(filePath))
      fileName == basename(filePath)
  IN  IF ext \in textExtensions THEN extractTextContent(filePath, fileName)
      ELSE IF ext \in titleExtensions THEN extractDocumentTitle(filePath, fileName)
      ELSE IF fileStats.size > maxFileSize
      THEN [title |-> fileName, content |-> <<>>, extractable |-> FALSE,
            reason |-> "File too large"]
      ELSE [title |-> fileName, content |-> <<>>, extractable |-> FALSE,
            reason |-> "Unsupported file type"]

extractContent(filePath, fileStats) ==
  LET ext == toLowerCase(extname(filePath))
      fileName == basename(filePath)
  IN  IF fileStats.size > maxFileSize
      THEN [title |-> fileName, content |-> <<>>, extractable |-> FALSE,
            reason |-> "File too large"]
      ELSE IF ext \in textExtensions THEN extractTextContent(filePath, fileName)
      ELSE IF ext \in titleExtensions THEN extractDocumentTitle(filePath, fileName)
      ELSE [title |-> fileName, content |-> <<>>, extractable |-> FALSE,
            reason |-> "Unsupported file type"]

\* Whether extractContent awaits the file system (fs.readFile, fs.stat) before
\* it settles; otherwise its promise is already resolved when it is returned.
extractAwaitsIO(filePath, fileStats) ==
  /\ fileStats.size <= maxFileSize
  /\ toLowerCase(extname(filePath)) \in (textExtensions \cup titleExtensions)

(***************************************************************************)
(* The directory walk that feeds addScan                                   *)
(***************************************************************************)
skipList ==
  << <<"h", "i", "b", "e", "r", "f", "i", "l", ".", "s", "y", "s">>,
     <<"p", "a", "g", "e", "f", "i", "l", "e", ".", "s", "y", "s">>,
     <<"s", "w", "a", "p", "f", "i", "l", "e", ".", "s", "y", "s">>,
     <<"b", "o", "o", "t", "T", "e", "l", ".", "d", "a", "t">>,
     <<"D", "u", "m", "p", "S", "t", "a", "c", "k", ".", "l", "o", "g">>,
     <<"D", "u", "m", "p", "S", "t", "a", "c", "k", ".", "l", "o", "g", ".", "t", "m", "p">>,
     <<"$", "R", "e", "c", "y", "c", "l", "e", ".", "B", "i", "n">>,
     <<"S", "y", "s", "t", "e", "m", " ", "V", "o", "l", "u", "m", "e", " ", "I", "n", "f", "o", "r", "m", "a", "t", "i", "o", "n">>,
     <<"R", "e", "c", "o", "v", "e", "r", "y">>,
     <<"P", "e", "r", "f", "L", "o", "g", "s">>,
     <<"W", "i", "n", "d", "o", "w", "s", "A", "p", "p", "s">>,
     <<"P", "a", "c", "k", "a", "g", "e", "s">>,
     <<"C", "o", "n", "f", "i", "g", ".", "M", "s", "i">> >>

shouldSkipFile(fileName) ==
  \/ \E i \in DOMAIN skipList : includes(fileName, skipList[i])
  \/ startsWith(fileName, <<".">>)
  \/ startsWith(fileName, <<"$">>)

maxItems == 1000

\* scanDirectorySafe: the entries that are not skipped, at most maxItems, each
\* as {name, path, isDirectory, size}.
scanDirectorySafe(dirPath) ==
  WithValue(slice0(SelectSeq(fsReaddir(dirPath), LAMBDA e : ~shouldSkipFile(e.name)),
                   maxItems),
            LAMBDA items :
    [i \in 1..Len(items) |->
       [name |-> items[i].name,
        path |-> normalizePath(pathJoin(dirPath, items[i].name)),
        isDirectory |-> items[i].isDirectory,
        size |-> IF items[i].isDirectory THEN 0 ELSE items[i].size]])

(***************************************************************************)
(* EnhancedHybridFileDB: the six indexes                                   *)
(***************************************************************************)
\* Map.prototype.has / get on a map kept as a sequence of [key, ids] entries.
mapHas(m, k) == \E i \in DOMAIN m : m[i].key = k

mapGet(m, k) == m[CHOOSE i \in DOMAIN m : m[i].key = k].ids

inSeq(x, s) == \E i \in DOMAIN s : s[i] = x

\* if (!map.has(k)) map.set(k, new Set()); map.get(k).add(x)
mapAdd(m, k, x) ==
  IF mapHas(m, k)
  THEN [i \in DOMAIN m |->
          IF m[i].key = k /\ ~inSeq(x, m[i].ids)
          THEN [key |-> k, ids |-> Append(m[i].ids, x)]
          ELSE m[i]]
  ELSE Append(m, [key |-> k, ids |-> <<x>>])

\* if (!map.has(k)) map.set(k, []); map.get(k).push(x)
mapPush(m, k, x) ==
  IF mapHas(m, k)
  THEN [i \in DOMAIN m |->
          IF m[i].key = k THEN [key |-> k, ids |-> Append(m[i].ids, x)] ELSE m[i]]
  ELSE Append(m, [key |-> k, ids |-> <<x>>])

\* mapAdd of each key of keys, in order: added[n] is the map after n keys.
mapAddAll(m, keys, x) ==
  WithValue(keys, LAMBDA ks :
    LET added[n \in 0..Len(ks)] ==
          IF n = 0 THEN m
          ELSE WithValue(added[n - 1], LAMBDA m2 : mapAdd(m2, ks[n], x))
    IN  added[Len(ks)])

\* The Hangul syllables U+AC00..U+D7A3, which indexText keeps beside \w and \s;
\* the modelled file system writes none.
HangulChars == {}

\* The words of indexText: lower-cased, every other character turned into a
\* space, split on whitespace, words of two or more characters kept.
indexWords(text) ==
  WithValue(toLowerCase(text), LAMBDA lower :
    WithValue([i \in 1..Len(lower) |->
                 IF lower[i] \in (WordChars \cup SpaceChars \cup HangulChars)
                 THEN lower[i] ELSE " "],
              LAMBDA cleaned :
      SelectSeq(splitSpaces(cleaned, 1, <<>>, FALSE), LAMBDA word : Len(word) >= 2)))

\* The three-character substrings of the words of three or more characters.
indexSubstrings(words) ==
  flatten([w \in 1..Len(words) |->
             IF Len(words[w]) >= 3
             THEN [i \in 1..(Len(words[w]) - 2) |-> SubSeq(words[w], i, i + 2)]
             ELSE <<>>])

indexText(text, indexMap, fileIndex) ==
  WithValue(indexWords(text), LAMBDA words :
    WithValue(mapAddAll(indexMap, words, fileIndex), LAMBDA withWords :
      mapAddAll(withWords, indexSubstrings(words), fileIndex)))

emptyIndexes ==
  [nameIndex |-> <<>>, contentIndex |-> <<>>, titleIndex |-> <<>>,
   extensionIndex |-> <<>>, pathIndex |-> <<>>, scanIndex |-> <<>>]

\* The body of the forEach of buildIndexes for the file at ordinal index.
indexFile(ix, file, index) ==
  WithValue(toLowerCase(extname(file.name)), LAMBDA ext :
      [nameIndex |-> indexText(file.name, ix.nameIndex, index),
       titleIndex |-> IF file.title # <<>> /\ file.title # file.name
                      THEN indexText(file.title, ix.titleIndex, index)
                      ELSE ix.titleIndex,
       contentIndex |-> IF file.content # <<>>
                        THEN indexText(file.content, ix.contentIndex, index)
                        ELSE ix.contentIndex,
       extensionIndex |-> IF ext # <<>>
                          THEN mapPush(ix.extensionIndex, ext, index)
                          ELSE ix.extensionIndex,
       pathIndex |-> mapAddAll(ix.pathIndex,
                               SelectSeq(splitChar(toLowerCase(file.path), sep, 1, <<>>),
                                         LAMBDA part : Len(part) > 2),
                               index),
       scanIndex |-> mapPush(ix.scanIndex, file.scanId, index)])

\* indexText(file.title, ...) throws for a title that is no string:
\* text.toLowerCase is not a function.
indexFileThrows(file) ==
  file.title # <<>> /\ file.title # file.name /\ ~isString(file.title)

\* Whether buildIndexes throws on these files.
buildIndexesThrows(dataFiles) ==
  \E n \in 1..Len(dataFiles) : indexFileThrows(dataFiles[n])

\* buildIndexes: every index cleared, then every file of data.files indexed;
\* built[n] is the indexes after the files at the ordinals 1..n.  If the
\* forEach throws at a file, the indexes stay as they are at that point: the
\* files before it indexed, its name indexed, nothing of the files after it.
buildIndexes(dataFiles) ==
  WithValue(dataFiles, LAMBDA fs :
    WithValue(findFirst(fs, { n \in 1..Len(fs) : indexFileThrows(fs[n]) }),
              LAMBDA thrownAt :
      LET built[n \in 0..Len(fs)] ==
            IF n = 0 THEN emptyIndexes
            ELSE WithValue(built[n - 1], LAMBDA ix :
                   IF n = thrownAt
                   THEN [ix EXCEPT !.nameIndex = indexText(fs[n].name, @, n)]
                   ELSE indexFile(ix, fs[n], n))
      IN  built[IF thrownAt = 0 THEN Len(fs) ELSE thrownAt]))

(***************************************************************************)
(* EnhancedHybridFileDB: search                                            *)
(***************************************************************************)
\* Set.prototype.add of each element of xs, in order: a set kept as the
\* sequence of its elements in insertion order.
setAddAll(results, xs) ==
  WithValue(xs, LAMBDA v :
    LET added[n \in 0..Len(v)] ==
          IF n = 0 THEN results
          ELSE WithValue(added[n - 1], LAMBDA r :
                 IF inSeq(v[n], r) THEN r ELSE Append(r, v[n]))
    IN  added[Len(v)])

\* A faulty lookup: it takes the key that equals the query and no key that
\* contains it.
searchInIndexExactOnly(query, indexMap, results) ==
  setAddAll(results, IF mapHas(indexMap, query) THEN mapGet(indexMap, query) ELSE <<>>)

searchInIndex(query, indexMap, results) ==
  setAddAll(results,
            (IF mapHas(indexMap, query) THEN mapGet(indexMap, query) ELSE <<>>)
            \o flatten([i \in 1..Len(indexMap) |->
                          IF includes(indexMap[i].key, query) /\ indexMap[i].key # query
                          THEN indexMap[i].ids ELSE <<>>]))

\* The collation of String.prototype.localeCompare, as far as the model needs
\* it: whitespace, then punctuation, then digits, then letters; a letter's case
\* decides only between strings that are otherwise equal, lower case first.
punctuationOrder == <<"_", "-", ",", ";", ":", "!", "?", ".", "(", ")", "[", "]", "@",
                      "*", "/", "&", "#", "%", "+", "<", "=", ">", "$">>

primaryWeight(c) ==
  LET l == IF c \in DOMAIN LowerMap THEN LowerMap[c] ELSE c IN
  IF l \in SpaceChars THEN 0
  ELSE IF l \in Range(DigitChars)
  THEN 100 + (CHOOSE i \in DOMAIN DigitChars : DigitChars[i] = l)
  ELSE IF l \in Range(LowerLetters)
  THEN 200 + (CHOOSE i \in DOMAIN LowerLetters : LowerLetters[i] = l)
  ELSE IF l \in Range(punctuationOrder)
  THEN CHOOSE i \in DOMAIN punctuationOrder : punctuationOrder[i] = l
  ELSE 99

\* Lexicographic comparison of two sequences of numbers: -1, 0 or 1.
compareWeights(a, b) ==
  WithValue(<<a, b>>, LAMBDA v :
    LET from[i \in 1..(Len(v[1]) + Len(v[2]) + 1)] ==
          IF i > Len(v[1]) /\ i > Len(v[2]) THEN 0
          ELSE IF i > Len(v[1]) THEN -1
          ELSE IF i > Len(v[2]) THEN 1
          ELSE IF v[1][i] < v[2][i] THEN -1
          ELSE IF v[1][i] > v[2][i] THEN 1
          ELSE from[i + 1]
    IN  from[1])

caseWeights(s) == [i \in 1..Len(s) |-> IF s[i] \in DOMAIN LowerMap THEN 1 ELSE 0]

localeCompare(a, b) ==
  WithValue(compareWeights([i \in 1..Len(a) |-> primaryWeight(a[i])],
                           [i \in 1..Len(b) |-> primaryWeight(b[i])]),
            LAMBDA primary :
    IF primary # 0 THEN primary ELSE compareWeights(caseWeights(a), caseWeights(b)))

boolToNumber(b) == IF b THEN 1 ELSE 0

\* A faulty comparator: among equal scores it puts files before directories.
compareResultsFilesFirst(a, b) ==
  IF a.relevanceScore # b.relevanceScore THEN b.relevanceScore - a.relevanceScore
  ELSE IF a.isDirectory # b.isDirectory
  THEN boolToNumber(a.isDirectory) - boolToNumber(b.isDirectory)
  ELSE localeCompare(a.name, b.name)

\* The comparator of the sort of searchFiles: negative when a goes first.
compareResults(a, b) ==
  IF a.relevanceScore # b.relevanceScore THEN b.relevanceScore - a.relevanceScore
  ELSE IF a.isDirectory # b.isDirectory
  THEN boolToNumber(b.isDirectory) - boolToNumber(a.isDirectory)
  ELSE localeCompare(a.name, b.name)

\* Array.prototype.sort with that comparator: the sort is stable, so each
\* element goes after the elements that do not compare greater than it.
insertResult(sorted, x) ==
  WithValue(Cardinality({ i \in DOMAIN sorted : compareResults(sorted[i], x) <= 0 }),
            LAMBDA n : SubSeq(sorted, 1, n) \o <<x>> \o SubSeq(sorted, n + 1, Len(sorted)))

sortResults(items) ==
  WithValue(items, LAMBDA v :
    LET upTo[n \in 0..Len(v)] ==
          IF n = 0 THEN <<>>
          ELSE WithValue(upTo[n - 1], LAMBDA s : insertResult(s, v[n]))
    IN  upTo[Len(v)])

\* A faulty score: the containment points of the name are added to the points
\* of an exact name instead of replacing them.
relevanceScoreNameTwice(file, queryLower) ==
  (IF toLowerCase(file.name) = queryLower THEN 100 ELSE 0)
  + (IF includes(toLowerCase(file.name), queryLower) THEN 50 ELSE 0)
  + (IF file.title # <<>> /\ includes(toLowerCase(file.title), queryLower) THEN 30 ELSE 0)
  + (IF file.content # <<>> /\ includes(toLowerCase(file.content), queryLower) THEN 10 ELSE 0)

\* The relevance score of searchFiles for one file.
relevanceScore(file, queryLower) ==
  (IF toLowerCase(file.name) = queryLower THEN 100
   ELSE IF includes(toLowerCase(file.name), queryLower) THEN 50 ELSE 0)
  + (IF file.title # <<>> /\ includes(toLowerCase(file.title), queryLower) THEN 30 ELSE 0)
  + (IF file.content # <<>> /\ includes(toLowerCase(file.content), queryLower) THEN 10 ELSE 0)

defaultLimit == 1000

minQueryLength == 2

\* [...file, relevanceScore]
withScore(file, score) ==
  [f \in (DOMAIN file) \cup {"relevanceScore"} |->
     IF f = "relevanceScore" THEN score ELSE file[f]]

\* A faulty collection: an extension query goes through the name, title,
\* content and path indexes like any other query.
searchCandidatesAllIndexes(queryLower, ix) ==
  setAddAll(
    searchInIndex(queryLower, ix.contentIndex,
      searchInIndex(queryLower, ix.titleIndex,
        searchInIndex(queryLower, ix.nameIndex, <<>>))),
    flatten([i \in 1..Len(ix.pathIndex) |->
               IF includes(ix.pathIndex[i].key, queryLower)
               THEN ix.pathIndex[i].ids ELSE <<>>]))

\* The ordinals searchFiles collects, in the insertion order of its result set.
searchCandidates(queryLower, ix) ==
  IF startsWith(queryLower, <<".">>)
  THEN IF mapHas(ix.extensionIndex, queryLower)
       THEN setAddAll(<<>>, mapGet(ix.extensionIndex, queryLower))
       ELSE <<>>
  ELSE setAddAll(
         searchInIndex(queryLower, ix.contentIndex,
           searchInIndex(queryLower, ix.titleIndex,
             searchInIndex(queryLower, ix.nameIndex, <<>>))),
         flatten([i \in 1..Len(ix.pathIndex) |->
                    IF includes(ix.pathIndex[i].key, queryLower)
                    THEN ix.pathIndex[i].ids ELSE <<>>]))

\* Array.from(results).map(idx => ({...file, relevanceScore}))
scoredResults(queryLower, results, dataFiles) ==
  [i \in 1..Len(results) |->
     withScore(dataFiles[results[i]], relevanceScore(dataFiles[results[i]], queryLower))]

\* A faulty guard: only the empty query is turned away.
queryTooShortOnlyEmpty(query) == query = <<>>

\* !query || query.length < 2
queryTooShort(query) == query = <<>> \/ Len(query) < minQueryLength

\* searchFiles(query, options) on the catalog (dataFiles, ix).  options is a
\* record that may or may not have a limit field.
searchFilesIn(query, options, dataFiles, ix) ==
  IF queryTooShort(query) THEN <<>>
  ELSE WithValue(toLowerCase(query), LAMBDA queryLower :
         WithValue(searchCandidates(queryLower, ix), LAMBDA results :
           WithValue(sortResults(scoredResults(queryLower, results, dataFiles)),
                     LAMBDA sorted :
             slice0(sorted,
                    IF "limit" \in DOMAIN options /\ options.limit # 0
                    THEN options.limit ELSE defaultLimit))))

(***************************************************************************)
(* EnhancedHybridFileDB: queries on the catalog                            *)
(***************************************************************************)
\* getFilesByScan(scanId)
getFilesByScanIn(scanId, dataFiles, ix) ==
  WithValue(IF mapHas(ix.scanIndex, scanId) THEN mapGet(ix.scanIndex, scanId) ELSE <<>>,
            LAMBDA ids : [i \in 1..Len(ids) |-> dataFiles[ids[i]]])

\* A faulty sort: it leaves the scans in the order they are stored in.
insertScanAppending(sorted, s) == Append(sorted, s)

\* scans.sort((a, b) => new Date(b.scanDate) - new Date(a.scanDate)): stable,
\* latest scanDate first; the array is sorted in place.
insertScan(sorted, s) ==
  WithValue(Cardinality({ i \in DOMAIN sorted : s.scanDate - sorted[i].scanDate <= 0 }),
            LAMBDA n : SubSeq(sorted, 1, n) \o <<s>> \o SubSeq(sorted, n + 1, Len(sorted)))

sortByScanDate(dataScans) ==
  WithValue(dataScans, LAMBDA v :
    LET upTo[n \in 0..Len(v)] ==
          IF n = 0 THEN <<>>
          ELSE WithValue(upTo[n - 1], LAMBDA s : insertScan(s, v[n]))
    IN  upTo[Len(v)])

\* getRecentScans(limit): the sorted array, cut to its first limit scans.
getRecentScansIn(dataScans, limit) == slice0(sortByScanDate(dataScans), limit)

count(s, Test(_)) == Len(SelectSeq(s, Test))

\* getStats()
getStatsIn(d, ix) ==
      [totalFiles |-> count(d.files, LAMBDA f : ~f.isDirectory),
       totalFolders |-> count(d.files, LAMBDA f : f.isDirectory),
       totalScans |-> Len(d.scans),
       totalSize |-> sumSeq([i \in 1..Len(d.files) |-> d.files[i].size]),
       extractableFiles |-> count(d.files, LAMBDA f : f.extractable),
       totalContentLength |->
         sumSeq([i \in 1..Len(d.files) |-> d.files[i].contentLength]),
       indexStats |-> [nameEntries |-> Len(ix.nameIndex),
                       contentEntries |-> Len(ix.contentIndex),
                       titleEntries |-> Len(ix.titleIndex),
                       extensions |-> Len(ix.extensionIndex),
                       paths |-> Len(ix.pathIndex),
                       scans |-> Len(ix.scanIndex)]]

(***************************************************************************)
(* EnhancedHybridFileDB: the mutations, as functions of the catalog        *)
(***************************************************************************)
\* x.field || dflt for a field the extractor may leave out of its result.
orDefault(r, field, dflt) == IF field \in DOMAIN r THEN r[field] ELSE dflt

\* The record the mapper of addScan builds for one file of a batch.
enhanceFile(file, scanId) ==
  WithValue(extractContent(file.path, [size |-> file.size]), LAMBDA contentData :
      [name |-> file.name,
       path |-> file.path,
       isDirectory |-> file.isDirectory,
       size |-> file.size,
       scanId |-> scanId,
       extension |-> toLowerCase(extname(file.name)),
       title |-> contentData.title,
       content |-> orDefault(contentData, "content", <<>>),
       extractable |-> orDefault(contentData, "extractable", FALSE),
       contentLength |-> orDefault(contentData, "contentLength", 0),
       wordCount |-> orDefault(contentData, "wordCount", 0),
       extractionReason |-> orDefault(contentData, "reason", "")])

batchSize == 10

\* files.slice(i, i + batchSize), as the ordinals of the batch.
batchOrdinals(rawFiles, i) == { j \in 1..Len(rawFiles) : i < j /\ j <= i + batchSize }

\* Promise.allSettled of the batch: one result per file, in the order of the
\* batch.  The mapper rejects only if path.extname or path.basename is handed
\* a non-string, which the directory walk never produces.
batchResults(rawFiles, i, scanId) ==
  [k \in 1..Cardinality(batchOrdinals(rawFiles, i)) |->
     [status |-> "fulfilled", value |-> enhanceFile(rawFiles[i + k], scanId)]]

\* batchResults.forEach(result => { if fulfilled, enhancedFiles.push(value) })
pushFulfilled(enhancedFiles, results) ==
  WithValue(SelectSeq(results, LAMBDA r : r.status = "fulfilled"), LAMBDA fulfilled :
    enhancedFiles \o [k \in 1..Len(fulfilled) |-> fulfilled[k].value])

\* The scan object addScan builds once every batch has settled.
newScan(scanId, drivePath, enhancedFiles, startTime, clock) ==
  [id |-> scanId,
   drivePath |-> drivePath,
   scanDate |-> clock,
   totalFiles |-> count(enhancedFiles, LAMBDA f : ~f.isDirectory),
   totalFolders |-> count(enhancedFiles, LAMBDA f : f.isDirectory),
   totalSize |-> sumSeq([i \in 1..Len(enhancedFiles) |-> enhancedFiles[i].size]),
   extractableFiles |-> count(enhancedFiles, LAMBDA f : f.extractable),
   totalContentLength |->
     sumSeq([i \in 1..Len(enhancedFiles) |-> enhancedFiles[i].contentLength]),
   scanDuration |-> clock - startTime]

\* A faulty prefix test: it compares the paths as they are written.
underDriveCaseSensitive(p, drivePath) == startsWith(p, drivePath)

\* Whether addScan(drivePath, ...) removes what is stored under the path p.
underDrive(p, drivePath) == startsWith(toLowerCase(p), toLowerCase(drivePath))

\* The catalog addScan leaves: the files and the scans under drivePath removed,
\* the new files and the new scan appended.
addScanData(d, drivePath, enhancedFiles, scan) ==
  [files |-> SelectSeq(d.files, LAMBDA f : ~underDrive(f.path, drivePath))
             \o enhancedFiles,
   scans |-> Append(SelectSeq(d.scans, LAMBDA s : ~underDrive(s.drivePath, drivePath)),
                    scan)]

\* The catalog and the returned value of cleanupOldScans(keepCount).
cleanupOldScansResult(d, keepCount) ==
  IF Len(d.scans) <= keepCount THEN [data |-> d, returned |-> 0]
  ELSE WithValue(slice0(sortByScanDate(d.scans), keepCount), LAMBDA scansToKeep :
         WithValue({ scansToKeep[i].id : i \in DOMAIN scansToKeep }, LAMBDA keepIds :
           WithValue(SelectSeq(d.files, LAMBDA f : f.scanId \in keepIds), LAMBDA kept :
             [data |-> [files |-> kept, scans |-> scansToKeep],
              returned |-> Len(d.files) - Len(kept)])))

\* A faulty delete-scan: it removes the records of the scan and keeps the
\* scan.
deleteScanResultKeepingScan(d, scanId) ==
  WithValue(SelectSeq(d.files, LAMBDA f : f.scanId # scanId), LAMBDA kept :
    [data |-> [files |-> kept, scans |-> d.scans],
     returned |-> Len(d.files) - Len(kept)])

\* The catalog and the returned deletedCount of the delete-scan handler.
deleteScanResult(d, scanId) ==
  WithValue(SelectSeq(d.files, LAMBDA f : f.scanId # scanId), LAMBDA kept :
    [data |-> [files |-> kept,
               scans |-> SelectSeq(d.scans, LAMBDA s : s.id # scanId)],
     returned |-> Len(d.files) - Len(kept)])

(***************************************************************************)
(* The snapshot: JSON.stringify and JSON.parse of the catalog, and the     *)
(* files saveData writes                                                   *)
(***************************************************************************)
\* The fields of a scan or a record by the type of their values; the others
\* hold numbers.  The reason of a failed extraction is kept whole: it is one
\* unit of the text.
stringFields == {"name", "path", "extension", "title", "content", "drivePath"}

booleanFields == {"isDirectory", "extractable"}

messageFields == {"extractionReason"}

\* A string as JSON writes it: quoted, with the quote, the backslash and the
\* line feed escaped.
jsonQuote(str) ==
  <<"\"">>
    \o flatten([i \in 1..Len(str) |->
                  IF str[i] = "\"" THEN <<"\\", "\"">>
                  ELSE IF str[i] = "\\" THEN <<"\\", "\\">>
                  ELSE IF str[i] = "\n" THEN <<"\\", "n">>
                  ELSE <<str[i]>>])
    \o <<"\"">>

\* The string a quoted literal stands for.
jsonUnquote(lit) ==
  LET body == SubSeq(lit, 2, Len(lit) - 1)
      rest[i \in 1..(Len(body) + 2)] ==
        IF i > Len(body) THEN <<>>
        ELSE IF body[i] = "\\"
        THEN <<IF body[i + 1] = "n" THEN "\n" ELSE body[i + 1]>> \o rest[i + 2]
        ELSE <<body[i]>> \o rest[i + 1]
  IN  rest[1]

\* The number a run of decimal digits stands for.
parseNumber(lit) ==
  LET value[k \in 0..Len(lit)] ==
        IF k = 0 THEN 0
        ELSE value[k - 1] * 10 + ((CHOOSE d \in 1..10 : DigitChars[d] = lit[k]) - 1)
  IN  value[Len(lit)]

jsonTrue == <<"t", "r", "u", "e">>

jsonFalse == <<"f", "a", "l", "s", "e">>

\* The literal JSON.stringify writes for the value of a field.
jsonLiteral(field, value) ==
  IF field \in stringFields THEN jsonQuote(value)
  ELSE IF field \in messageFields THEN <<"\"", value, "\"">>
  ELSE IF field \in booleanFields THEN (IF value THEN jsonTrue ELSE jsonFalse)
  ELSE toDecimal(value)

\* The value JSON.parse reads from a literal: what kind of value it is shows
\* in the literal.
parseLiteral(field, lit) ==
  IF lit[1] = "\"" THEN (IF field \in messageFields THEN lit[2] ELSE jsonUnquote(lit))
  ELSE IF lit = jsonTrue THEN TRUE
  ELSE IF lit = jsonFalse THEN FALSE
  ELSE parseNumber(lit)

\* A faulty writer: it leaves the line feeds out of the strings.
stringifyUnescaped(d) ==
  [k \in DOMAIN d |->
     [i \in 1..Len(d[k]) |->
        [f \in DOMAIN d[k][i] |->
           IF f \in stringFields
           THEN <<"\"">> \o SelectSeq(d[k][i][f], LAMBDA ch : ch # "\n") \o <<"\"">>
           ELSE jsonLiteral(f, d[k][i][f])]]]

\* JSON.stringify(this.data, null, 2): the document, as the literals of the
\* fields of the objects of its arrays.  The object {} has no array.
stringify(d) ==
  [k \in DOMAIN d |->
     [i \in 1..Len(d[k]) |-> [f \in DOMAIN d[k][i] |-> jsonLiteral(f, d[k][i][f])]]]

\* JSON.parse of a document.
parse(doc) ==
  [k \in DOMAIN doc |->
     [i \in 1..Len(doc[k]) |-> [f \in DOMAIN doc[k][i] |-> parseLiteral(f, doc[k][i][f])]]]

\* Whether a value has the arrays the catalog code reads.
isCatalog(d) == {"scans", "files"} \subseteq DOMAIN d

emptyCatalog == [scans |-> <<>>, files |-> <<>>]

\* How long the text of a document is: its literals, one separator for each
\* field and each object, and the braces.
objectLength(object) ==
  1 + Cardinality(UNION { {<<f, 0>>} \cup { <<f, j>> : j \in 1..Len(object[f]) } :
                          f \in DOMAIN object })

docLength(doc) ==
  2 + sumSeq(flatten([k \in 1..2 |->
                        IF <<"scans", "files">>[k] \in DOMAIN doc
                        THEN [i \in 1..Len(doc[<<"scans", "files">>[k]]) |->
                                objectLength(doc[<<"scans", "files">>[k]][i])]
                        ELSE <<>>]))

\* What a file holds: nothing there (absent), the text of a document (json),
\* or a text that is no document (partial): one cut to nothing by an open for
\* writing, or the rest of a longer text behind a shorter one.
absentFile == [kind |-> "absent", doc |-> <<>>, length |-> 0]

truncatedFile == [kind |-> "partial", doc |-> <<>>, length |-> 0]

writtenFile(doc) == [kind |-> "json", doc |-> doc, length |-> docLength(doc)]

\* fs.writeFile writes its text from the start of the file it has open: what
\* the file held beyond the end of the text stays.
overwritten(file, doc) ==
  IF file.length <= docLength(doc) THEN writtenFile(doc)
  ELSE [kind |-> "partial", doc |-> <<>>, length |-> file.length]

\* A saveData call that has returned.
returnedSave == [by |-> "", doc |-> <<>>, pc |-> "returned", at |-> "none"]

\* A faulty saveData whose catch throws the error on to its caller.
rejectedSave == [by |-> "", doc |-> <<>>, pc |-> "rejected", at |-> "none"]

\* A saveData call of which fs.writeFile or fs.rename has failed: the catch
\* logs the error and the call returns as the others do.
caughtSave == [by |-> "", doc |-> <<>>, pc |-> "returned", at |-> "caught"]

\* A saveData call as it starts: the text is made at once from the catalog.
newSave(by, d) == [by |-> by, doc |-> stringify(d), pc |-> "open", at |-> "none"]

(***************************************************************************)
(* The state machine                                                       *)
(***************************************************************************)
\* Bounds of the model: how many times scan-directory is invoked, how far the
\* clock runs, and how many scanDrive calls are in flight at once.
MaxScanCalls == 2

MaxClock == 2

MaxInFlight == 1

\* The scanDrive calls, by their order of invocation.
Calls == 1..MaxScanCalls

\* The keepCount arguments of cleanup-old-scans.
KeepCounts == 0..MaxScanCalls

\* The scan ids the user can name.
ScanIds == 1..MaxClock

Root_a == <<"/", "a">>

Root_j == <<"/", "j">>

Root_a_ab == <<"/", "a", "/", "a", "b">>

Root_a_slashes == <<"/", "a", "/", "/">>

\* The directories the user asks to scan.
DrivePaths == {Root_a, Root_a_slashes, Root_a_ab}

\* The queries the user types.
Queries ==
  { <<>>, <<"a">>, <<"a", "b">>, <<"A", "B">>, <<"a", "-">>, <<"c", "d">>, <<".", "c">>, <<".", "C">>, <<"s", ".", "c">>, <<"z", "z">> }

\* The options searchFiles is called with: none, which leaves the limit at
\* defaultLimit as the limit of the search-files handler does, and a limit of
\* one.
SearchOptions == { <<>>, [limit |-> 1] }

\* The limits searchFiles is called with: none, one that cuts the answer, and
\* the 1000 of the search-files handler.
SearchLimits == {0, 1, 2, 1000}

\* The limits getRecentScans is called with: the 20 of the get-scan-history
\* handler, the default of 10, and limits that cut the answer.
RecentLimits == {0, 1, 2, 10, 20}

VARIABLES
  data,      \* fileDB.data: [scans, files]
  indexes,   \* fileDB.indexes
  now,       \* the reading of Date.now()
  calls,     \* the scanDrive calls in flight, by slot
  invoked,   \* how many scanDrive calls were made
  fileDB,    \* the global fileDB: "undefined", or how far its loadData is
  disk,      \* the snapshot file and its temporary file: [db, tmp]
  saves,     \* the saveData calls made, in order, and how far each is
  timers     \* how many setTimeout(() => this.saveData(), 100) are pending

\* What persists the catalog.  Spec follows the catalog in memory once the
\* startup load has completed and leaves these as they are; SpecStore follows
\* them.
store == <<fileDB, disk, saves, timers>>

vars == <<data, indexes, now, calls, invoked, fileDB, disk, saves, timers>>

idleCall ==
  [pc |-> "idle", drivePath |-> <<>>, files |-> <<>>, scanId |-> 0, i |-> 0,
   pending |-> {}, enhancedFiles |-> <<>>]

Init ==
  /\ data = [scans |-> <<>>, files |-> <<>>]
  /\ indexes = emptyIndexes
  /\ now = 1
  /\ calls = [c \in Calls |-> idleCall]
  /\ invoked = 0
  /\ fileDB = "read"
  /\ disk = [db |-> writtenFile(stringify(emptyCatalog)), tmp |-> absentFile]
  /\ saves = <<>>
  /\ timers = 0

\* The extractions of the batch at offset i that wait for the file system;
\* the others have settled by the time the batch is awaited.
awaitingIO(rawFiles, i) ==
  { j \in batchOrdinals(rawFiles, i) :
      extractAwaitsIO(rawFiles[j].path, [size |-> rawFiles[j].size]) }

\* ipcMain 'scan-directory' -> scanDrive(drivePath): up to the await of the
\* directory walk.
ScanDrive(c, drivePath) ==
  /\ c = invoked + 1
  /\ Cardinality({ d \in Calls : calls[d].pc # "idle" }) < MaxInFlight
  /\ invoked' = invoked + 1
  /\ calls' = [calls EXCEPT ![c] = [idleCall EXCEPT !.pc = "walk", !.drivePath = drivePath]]
  /\ UNCHANGED <<data, indexes, now, store>>

\* The walk resolves.  With no files scanDrive returns; otherwise addScan starts:
\* it takes its scanId from the clock and launches its first batch.
WalkDone(c) ==
  /\ calls[c].pc = "walk"
  /\ \E found \in {scanDirectorySafe(calls[c].drivePath)} :
     IF Len(found) > 0
     THEN calls' = [calls EXCEPT ![c] =
                      [@ EXCEPT !.pc = "extract", !.files = found, !.scanId = now,
                                !.i = 0, !.pending = awaitingIO(found, 0)]]
     ELSE calls' = [calls EXCEPT ![c] = idleCall]
  /\ UNCHANGED <<data, indexes, now, invoked, store>>

\* One extraction of the batch in flight settles.
ExtractSettle(c) ==
  /\ calls[c].pc = "extract"
  /\ \E j \in calls[c].pending : calls' = [calls EXCEPT ![c].pending = @ \ {j}]
  /\ UNCHANGED <<data, indexes, now, invoked, store>>

\* A faulty batch loop: it stores the records of each batch as the batch
\* settles.
NextBatchPublishing(c) ==
  LET call == calls[c] IN
  /\ call.pc = "extract"
  /\ call.pending = {}
  /\ call.i + batchSize < Len(call.files)
  /\ data' = [data EXCEPT !.files =
                 pushFulfilled(data.files, batchResults(call.files, call.i, call.scanId))]
  /\ calls' = [calls EXCEPT ![c] =
                 [@ EXCEPT !.enhancedFiles =
                              pushFulfilled(call.enhancedFiles,
                                            batchResults(call.files, call.i, call.scanId)),
                           !.i = call.i + batchSize,
                           !.pending = awaitingIO(call.files, call.i + batchSize)]]
  /\ UNCHANGED <<indexes, now, invoked, store>>

\* A faulty batch loop: it launches the next batch without awaiting the
\* extractions of the batch in flight.
NextBatchBeforeSettled(c) ==
  LET call == calls[c] IN
  /\ call.pc = "extract"
  /\ call.i + batchSize < Len(call.files)
  /\ calls' = [calls EXCEPT ![c] =
                 [@ EXCEPT !.enhancedFiles =
                              pushFulfilled(call.enhancedFiles,
                                            batchResults(call.files, call.i, call.scanId)),
                           !.i = call.i + batchSize,
                           !.pending = call.pending
                                         \cup awaitingIO(call.files, call.i + batchSize)]]
  /\ UNCHANGED <<data, indexes, now, invoked, store>>

\* await Promise.allSettled(batchPromises) resumes and there is a next batch.
NextBatch(c) ==
  LET call == calls[c] IN
  /\ call.pc = "extract"
  /\ call.pending = {}
  /\ call.i + batchSize < Len(call.files)
  /\ calls' = [calls EXCEPT ![c] =
                 [@ EXCEPT !.enhancedFiles =
                              pushFulfilled(call.enhancedFiles,
                                            batchResults(call.files, call.i, call.scanId)),
                           !.i = call.i + batchSize,
                           !.pending = awaitingIO(call.files, call.i + batchSize)]]
  /\ UNCHANGED <<data, indexes, now, invoked, store>>

\* The last batch has settled: addScan builds the scan, replaces what is stored
\* under drivePath, rebuilds the indexes and returns the scanId.
AddScanCommit(c) ==
  LET call == calls[c] IN
  /\ call.pc = "extract"
  /\ call.pending = {}
  /\ call.i + batchSize >= Len(call.files)
  /\ \E enhancedFiles \in {pushFulfilled(call.enhancedFiles,
                                          batchResults(call.files, call.i, call.scanId))} :
       data' = addScanData(data, call.drivePath, enhancedFiles,
                           newScan(call.scanId, call.drivePath, enhancedFiles,
                                   call.scanId, now))
  /\ indexes' = buildIndexes(data'.files)
  /\ calls' = [calls EXCEPT ![c] = idleCall]
  /\ UNCHANGED <<now, invoked, store>>

\* ipcMain 'cleanup-old-scans'
CleanupOldScans(keepCount) ==
  \E r \in {cleanupOldScansResult(data, keepCount)} :
  /\ data' = r.data
  /\ indexes' = IF Len(data.scans) <= keepCount THEN indexes ELSE buildIndexes(r.data.files)
  /\ UNCHANGED <<now, calls, invoked, store>>

\* ipcMain 'delete-scan'
DeleteScan(scanId) ==
  \E r \in {deleteScanResult(data, scanId)} :
  /\ data' = r.data
  /\ indexes' = buildIndexes(r.data.files)
  /\ UNCHANGED <<now, calls, invoked, store>>

\* ipcMain 'clear-database'
ClearDatabase ==
  /\ data' = [scans |-> <<>>, files |-> <<>>]
  /\ indexes' = buildIndexes(<<>>)
  /\ UNCHANGED <<now, calls, invoked, store>>

\* getRecentScans and getLatestFiles sort data.scans in place before they read.
GetRecentScans ==
  /\ data' = [data EXCEPT !.scans = sortByScanDate(data.scans)]
  /\ UNCHANGED <<indexes, now, calls, invoked, store>>

GetLatestFiles ==
  /\ data' = IF Len(data.scans) = 0 THEN data
             ELSE [data EXCEPT !.scans = sortByScanDate(data.scans)]
  /\ UNCHANGED <<indexes, now, calls, invoked, store>>

\* searchFiles, getFilesByScan and getStats assign no field of the catalog,
\* whatever their arguments; what they return in a state is searchFilesIn,
\* getFilesByScanIn and getStatsIn of that state.
\* A faulty search: it scores and sorts the stored records themselves.
SearchFilesSortingCatalog ==
  /\ data' = [data EXCEPT !.files =
                 sortResults([i \in 1..Len(data.files) |-> withScore(data.files[i], 0)])]
  /\ UNCHANGED <<indexes, now, calls, invoked, store>>

SearchFiles == UNCHANGED vars

GetFilesByScan == UNCHANGED vars

GetStats == UNCHANGED vars

\* Time passes.
Tick ==
  /\ now < MaxClock
  /\ now' = now + 1
  /\ UNCHANGED <<data, indexes, calls, invoked, store>>

Next ==
  \/ \E c \in Calls : \E drivePath \in DrivePaths : ScanDrive(c, drivePath)
  \/ \E c \in Calls : WalkDone(c)
  \/ \E c \in Calls : ExtractSettle(c)
  \/ \E c \in Calls : NextBatch(c)
  \/ \E c \in Calls : AddScanCommit(c)
  \/ \E keepCount \in KeepCounts : CleanupOldScans(keepCount)
  \/ \E scanId \in ScanIds : DeleteScan(scanId)
  \/ ClearDatabase
  \/ GetRecentScans
  \/ GetLatestFiles
  \/ SearchFiles
  \/ GetFilesByScan
  \/ GetStats
  \/ Tick

Spec == Init /\ [][Next]_vars

(***************************************************************************)
(* The same state machine over directories that hold a JSON document       *)
(***************************************************************************)
\* The directories the user asks to scan: /j, which holds a .json file whose
\* title member is a number, and /a/ab.
JsonPaths == {Root_j, Root_a_ab}

NextJson ==
  \/ \E c \in Calls : \E drivePath \in JsonPaths : ScanDrive(c, drivePath)
  \/ \E c \in Calls : WalkDone(c)
  \/ \E c \in Calls : ExtractSettle(c)
  \/ \E c \in Calls : NextBatch(c)
  \/ \E c \in Calls : AddScanCommit(c)
  \/ \E keepCount \in KeepCounts : CleanupOldScans(keepCount)
  \/ \E scanId \in ScanIds : DeleteScan(scanId)
  \/ ClearDatabase
  \/ SearchFiles
  \/ GetFilesByScan
  \/ Tick

SpecJson == Init /\ [][NextJson]_vars

(***************************************************************************)
(* The catalog in memory when the user scans two directories whose paths   *)
(* differ in letter case only.                                             *)
(***************************************************************************)
Root_M == <<"/", "M">>

RootPaths == {<<"/", "m">>, Root_M}

NextRoots ==
  \/ \E c \in Calls : \E drivePath \in RootPaths : ScanDrive(c, drivePath)
  \/ \E c \in Calls : WalkDone(c)
  \/ \E c \in Calls : ExtractSettle(c)
  \/ \E c \in Calls : AddScanCommit(c)
  \/ \E keepCount \in KeepCounts : CleanupOldScans(keepCount)
  \/ \E scanId \in ScanIds : DeleteScan(scanId)
  \/ ClearDatabase
  \/ Tick

SpecRoots == Init /\ [][NextRoots]_vars

(***************************************************************************)
(* The state machine with the snapshot file: startup, loadData, saveData   *)
(***************************************************************************)
\* How many saveData calls are made in a run.
MaxSaves == 2

Root_m == <<"/", "m">>

\* The directory the user asks to scan while the snapshot is followed; the
\* user asks for one scan at a time, and the clock stands.
StorePaths == {Root_m}

\* The catalog an earlier run of the program left in the snapshot: /a, scanned
\* before the clock of this run started.
earlierCatalog ==
  WithValue(pushFulfilled(<<>>, batchResults(scanDirectorySafe(Root_a), 0, 0)),
            LAMBDA enhancedFiles :
    addScanData(emptyCatalog, Root_a, enhancedFiles,
                newScan(0, Root_a, enhancedFiles, 0, 0)))

\* What the snapshot file holds when the program starts: nothing, a text that
\* is no JSON, the JSON text {}, the empty catalog, an earlier catalog.
InitialSnapshots ==
  { absentFile, truncatedFile, writtenFile(<<>>), writtenFile(stringify(emptyCatalog)),
    writtenFile(stringify(earlierCatalog)) }

\* The scan ids the user can name while the snapshot is followed.
StoreScanIds == 0..MaxClock

InitStore ==
  /\ data = emptyCatalog
  /\ indexes = emptyIndexes
  /\ now = 1
  /\ calls = [c \in Calls |-> idleCall]
  /\ invoked = 0
  /\ fileDB = "undefined"
  /\ disk \in [db : InitialSnapshots, tmp : {absentFile}]
  /\ saves = <<>>
  /\ timers = 0

\* The saveData calls that were made or are still to be made by what is in
\* flight: the load, the pending timers, the scans.
pendingSaves ==
  Len(saves) + timers + Cardinality({ c \in Calls : calls[c].pc # "idle" })
    + (IF fileDB = "reading" THEN 1 ELSE 0)

\* initDatabase: new EnhancedHybridFileDB(...).  The constructor sets the
\* empty catalog and calls loadData without awaiting it; loadData runs up to
\* its await of fs.readFile.
InitDatabase ==
  /\ fileDB = "undefined"
  /\ fileDB' = "reading"
  /\ data' = emptyCatalog
  /\ indexes' = emptyIndexes
  /\ UNCHANGED <<now, calls, invoked, disk, saves, timers>>

\* A handler invoked before initDatabase has run answers 'Database not
\* initialized'.
NotInitialized ==
  /\ fileDB = "undefined"
  /\ UNCHANGED vars

\* loadData resumes from fs.readFile.  A text that parses is assigned to
\* this.data before buildIndexes runs; buildIndexes clears the indexes and
\* throws if the value has no files, or at a file it cannot index.  Whatever
\* is thrown is caught, and the catch saves this.data as it then is.
LoadData ==
  /\ fileDB = "reading"
  /\ fileDB' = "read"
  /\ IF disk.db.kind = "json"
     THEN \E parsed \in {parse(disk.db.doc)} :
            /\ data' = parsed
            /\ IF isCatalog(parsed)
               THEN /\ indexes' = buildIndexes(parsed.files)
                    /\ saves' = IF buildIndexesThrows(parsed.files)
                                THEN Append(saves, newSave("loadData", parsed))
                                ELSE saves
               ELSE /\ indexes' = emptyIndexes
                    /\ saves' = Append(saves, newSave("loadData", parsed))
     ELSE /\ saves' = Append(saves, newSave("loadData", data))
          /\ UNCHANGED <<data, indexes>>
  /\ UNCHANGED <<now, calls, invoked, disk, timers>>

\* fs.writeFile(tempPath, ...) opens the temporary file for writing: the file
\* is created, or cut to nothing if it is there.
SaveOpen(k) ==
  /\ k <= Len(saves)
  /\ saves[k].pc = "open"
  /\ disk' = [disk EXCEPT !.tmp = truncatedFile]
  /\ saves' = [saves EXCEPT ![k].pc = "write", ![k].at = "tmp"]
  /\ UNCHANGED <<data, indexes, now, calls, invoked, fileDB, timers>>

\* fs.writeFile writes the text into the file it opened, wherever a rename
\* has moved that file since, and closes it.
SaveWrite(k) ==
  /\ k <= Len(saves)
  /\ saves[k].pc = "write"
  /\ disk' = IF saves[k].at = "tmp"
             THEN [disk EXCEPT !.tmp = overwritten(disk.tmp, saves[k].doc)]
             ELSE IF saves[k].at = "db"
             THEN [disk EXCEPT !.db = overwritten(disk.db, saves[k].doc)]
             ELSE disk
  /\ saves' = [saves EXCEPT ![k].pc = "rename"]
  /\ UNCHANGED <<data, indexes, now, calls, invoked, fileDB, timers>>

\* fs.rename(tempPath, this.dbPath), and saveData returns.  Without a
\* temporary file the rename fails and the catch of saveData logs it.  The
\* files the other calls have open move with the names.
SaveRename(k) ==
  /\ k <= Len(saves)
  /\ saves[k].pc = "rename"
  /\ IF disk.tmp.kind = "absent"
     THEN /\ disk' = disk
          /\ saves' = [saves EXCEPT ![k] = caughtSave]
     ELSE \E others \in {[saves EXCEPT ![k] = returnedSave]} :
            /\ disk' = [db |-> disk.tmp, tmp |-> absentFile]
            /\ saves' = [j \in 1..Len(others) |->
                           IF others[j].pc # "write" THEN others[j]
                           ELSE [others[j] EXCEPT !.at = IF @ = "tmp" THEN "db" ELSE "gone"]]
  /\ UNCHANGED <<data, indexes, now, calls, invoked, fileDB, timers>>

\* ipcMain 'scan-directory', once fileDB is there.
ScanDirectory(c, drivePath) ==
  /\ fileDB # "undefined"
  /\ pendingSaves < MaxSaves
  /\ \A d \in Calls : calls[d].pc = "idle"
  /\ ScanDrive(c, drivePath)

\* addScan after its last batch, with the save it schedules.  Without
\* this.data.files the filter throws, and scanDrive catches it; if
\* buildIndexes throws, scanDrive catches that and no save is scheduled.
AddScanCommitAndSchedule(c) ==
  LET call == calls[c] IN
  /\ call.pc = "extract"
  /\ call.pending = {}
  /\ call.i + batchSize >= Len(call.files)
  /\ IF isCatalog(data)
     THEN /\ \E enhancedFiles \in {pushFulfilled(call.enhancedFiles,
                                     batchResults(call.files, call.i, call.scanId))} :
               data' = addScanData(data, call.drivePath, enhancedFiles,
                                   newScan(call.scanId, call.drivePath, enhancedFiles,
                                           call.scanId, now))
          /\ indexes' = buildIndexes(data'.files)
          /\ timers' = IF buildIndexesThrows(data'.files) THEN timers ELSE timers + 1
     ELSE UNCHANGED <<data, indexes, timers>>
  /\ calls' = [calls EXCEPT ![c] = idleCall]
  /\ UNCHANGED <<now, invoked, fileDB, disk, saves>>

\* The timer of addScan fires: () => this.saveData().
TimerFires ==
  /\ timers > 0
  /\ timers' = timers - 1
  /\ saves' = Append(saves, newSave("addScan", data))
  /\ UNCHANGED <<data, indexes, now, calls, invoked, fileDB, disk>>

\* ipcMain 'delete-scan', up to its await of saveData.  Without
\* this.data.files the handler throws at once and answers the error; so it
\* does, without saving, if buildIndexes throws.
DeleteScanHandler(scanId) ==
  /\ fileDB # "undefined"
  /\ pendingSaves < MaxSaves
  /\ IF isCatalog(data)
     THEN \E r \in {deleteScanResult(data, scanId)} :
            /\ data' = r.data
            /\ indexes' = buildIndexes(r.data.files)
            /\ saves' = IF buildIndexesThrows(r.data.files) THEN saves
                        ELSE Append(saves, newSave("delete-scan", r.data))
     ELSE UNCHANGED <<data, indexes, saves>>
  /\ UNCHANGED <<now, calls, invoked, fileDB, disk, timers>>

\* ipcMain 'clear-database', up to its await of saveData.
ClearDatabaseHandler ==
  /\ fileDB # "undefined"
  /\ pendingSaves < MaxSaves
  /\ IF isCatalog(data)
     THEN /\ data' = emptyCatalog
          /\ indexes' = buildIndexes(<<>>)
          /\ saves' = Append(saves, newSave("clear-database", emptyCatalog))
     ELSE UNCHANGED <<data, indexes, saves>>
  /\ UNCHANGED <<now, calls, invoked, fileDB, disk, timers>>

\* ipcMain 'cleanup-old-scans', up to the await of saveData in
\* cleanupOldScans; with no more than keepCount scans it returns 0 at once.
CleanupOldScansHandler(keepCount) ==
  /\ fileDB # "undefined"
  /\ pendingSaves < MaxSaves
  /\ IF isCatalog(data) /\ Len(data.scans) > keepCount
     THEN \E r \in {cleanupOldScansResult(data, keepCount)} :
            /\ data' = r.data
            /\ indexes' = buildIndexes(r.data.files)
            /\ saves' = IF buildIndexesThrows(r.data.files) THEN saves
                        ELSE Append(saves, newSave("cleanup-old-scans", r.data))
     ELSE UNCHANGED <<data, indexes, saves>>
  /\ UNCHANGED <<now, calls, invoked, fileDB, disk, timers>>

\* ipcMain 'search-files', once fileDB is there.
SearchFilesHandler ==
  /\ fileDB # "undefined"
  /\ UNCHANGED vars

NextStore ==
  \/ InitDatabase
  \/ NotInitialized
  \/ LoadData
  \/ \E k \in 1..MaxSaves : SaveOpen(k)
  \/ \E k \in 1..MaxSaves : SaveWrite(k)
  \/ \E k \in 1..MaxSaves : SaveRename(k)
  \/ \E c \in Calls : \E drivePath \in StorePaths : ScanDirectory(c, drivePath)
  \/ \E c \in Calls : WalkDone(c)
  \/ \E c \in Calls : ExtractSettle(c)
  \/ \E c \in Calls : AddScanCommitAndSchedule(c)
  \/ TimerFires
  \/ \E scanId \in StoreScanIds : DeleteScanHandler(scanId)
  \/ ClearDatabaseHandler
  \/ \E keepCount \in KeepCounts : CleanupOldScansHandler(keepCount)
  \/ SearchFilesHandler

SpecStore == InitStore /\ [][NextStore]_vars

(***************************************************************************)
(* One scan and its flush: the user may delete, clear or clean up until    *)
(* the addScan of the one scan-directory call has returned, and does       *)
(* nothing after it.  What the program does by itself is fair: the event   *)
(* loop runs every callback that is due, and every file operation ends.    *)
(***************************************************************************)
\* No addScan has returned yet.
beforeReturn == invoked = 0 \/ \E c \in Calls : calls[c].pc # "idle"

ScanOnce(c, drivePath) == invoked = 0 /\ ScanDirectory(c, drivePath)

DeleteScanBefore(scanId) == beforeReturn /\ DeleteScanHandler(scanId)

ClearDatabaseBefore == beforeReturn /\ ClearDatabaseHandler

CleanupOldScansBefore(keepCount) == beforeReturn /\ CleanupOldScansHandler(keepCount)

NextFlush ==
  \/ InitDatabase
  \/ LoadData
  \/ \E k \in 1..MaxSaves : SaveOpen(k)
  \/ \E k \in 1..MaxSaves : SaveWrite(k)
  \/ \E k \in 1..MaxSaves : SaveRename(k)
  \/ \E c \in Calls : \E drivePath \in StorePaths : ScanOnce(c, drivePath)
  \/ \E c \in Calls : WalkDone(c)
  \/ \E c \in Calls : ExtractSettle(c)
  \/ \E c \in Calls : AddScanCommitAndSchedule(c)
  \/ TimerFires
  \/ \E scanId \in StoreScanIds : DeleteScanBefore(scanId)
  \/ ClearDatabaseBefore
  \/ \E keepCount \in KeepCounts : CleanupOldScansBefore(keepCount)

\* The walk of call c has resolved and scanDrive has not resumed yet.
walkIsDue(c) == calls[c].pc = "walk"

\* The last batch of call c has settled and addScan has not resumed yet.
commitIsDue(c) ==
  /\ calls[c].pc = "extract"
  /\ calls[c].pending = {}
  /\ calls[c].i + batchSize >= Len(calls[c].files)

\* Weak fairness of every step the program takes by itself.  WalkDone(c) and
\* AddScanCommitAndSchedule(c) are enabled exactly when they are due and
\* their step ends that, so their weak fairness is stated on what enables
\* them.
FairFlush ==
  /\ WF_vars(InitDatabase)
  /\ WF_vars(LoadData)
  /\ WF_vars(TimerFires)
  /\ \A k \in 1..MaxSaves :
       WF_vars(SaveOpen(k)) /\ WF_vars(SaveWrite(k)) /\ WF_vars(SaveRename(k))
  /\ \A c \in Calls :
       WF_vars(ExtractSettle(c)) /\ []<>~walkIsDue(c) /\ []<>~commitIsDue(c)

SpecFlush == InitStore /\ [][NextFlush]_vars /\ FairFlush

(***************************************************************************)
(* The scans of SpecJson when the program goes on by itself: every walk    *)
(* resolves, every extraction settles, and addScan resumes when the batch  *)
(* it awaits has settled.                                                  *)
(***************************************************************************)
\* The batch of call c has settled, there are more files, and addScan has
\* not resumed yet.
nextBatchIsDue(c) ==
  /\ calls[c].pc = "extract"
  /\ calls[c].pending = {}
  /\ calls[c].i + batchSize < Len(calls[c].files)

\* Weak fairness of the steps of a scan.  WalkDone(c), NextBatch(c) and
\* AddScanCommit(c) are enabled exactly when they are due and their step ends
\* that, so their weak fairness is stated on what enables them.
FairScan ==
  \A c \in Calls :
    /\ WF_vars(ExtractSettle(c))
    /\ []<>~walkIsDue(c)
    /\ []<>~nextBatchIsDue(c)
    /\ []<>~commitIsDue(c)

SpecScan == Init /\ [][NextJson]_vars /\ FairScan

(***************************************************************************)
(* File operations that fail: the disk is full, the directory is not       *)
(* writable, another program holds the file.                               *)
(***************************************************************************)
\* fs.writeFile or fs.rename of the saveData call k rejects, and the catch
\* of saveData takes the error.  What the call had done to the files stays.
SaveFails(k) ==
  /\ k <= Len(saves)
  /\ saves[k].pc \in {"open", "write", "rename"}
  /\ saves' = [saves EXCEPT ![k] = caughtSave]
  /\ UNCHANGED <<data, indexes, now, calls, invoked, fileDB, disk, timers>>

NextFail ==
  \/ InitDatabase
  \/ LoadData
  \/ \E k \in 1..MaxSaves : SaveOpen(k)
  \/ \E k \in 1..MaxSaves : SaveWrite(k)
  \/ \E k \in 1..MaxSaves : SaveRename(k)
  \/ \E k \in 1..MaxSaves : SaveFails(k)
  \/ \E c \in Calls : \E drivePath \in StorePaths : ScanDirectory(c, drivePath)
  \/ \E c \in Calls : WalkDone(c)
  \/ \E c \in Calls : ExtractSettle(c)
  \/ \E c \in Calls : AddScanCommitAndSchedule(c)
  \/ TimerFires
  \/ \E scanId \in StoreScanIds : DeleteScanHandler(scanId)
  \/ ClearDatabaseHandler
  \/ \E keepCount \in KeepCounts : CleanupOldScansHandler(keepCount)

\* What the handler that awaited the saveData call answers: its catch answers
\* success: false if the await throws.
answerAfterSave(save) == [success |-> save.pc = "returned"]

SpecFail == InitStore /\ [][NextFail]_vars

(***************************************************************************)
(* Properties                                                              *)
(***************************************************************************)
\* What searchFiles(query, options) returns in the current state.
search(query, options) == searchFilesIn(query, options, data.files, indexes)

\* The number of results searchFiles cuts its answer to.
effectiveLimit(options) ==
  IF "limit" \in DOMAIN options /\ options.limit # 0 THEN options.limit ELSE 1000

\* A result without its score: the catalog record it was made from.
withoutScore(r) == [f \in (DOMAIN r) \ {"relevanceScore"} |-> r[f]]

\* text contains query as a contiguous run of characters.
contains(text, query) ==
  \E i \in 1..(Len(text) - Len(query) + 1) : SubSeq(text, i, i + Len(query) - 1) = query

\* p starts with root, letter case disregarded.
prefixedBy(p, root) ==
  /\ Len(root) <= Len(p)
  /\ SubSeq(toLowerCase(p), 1, Len(root)) = toLowerCase(root)

\* The queries searchFiles does not turn away, and those among them that ask
\* for an extension.
longQueries == { q \in Queries : Len(q) >= 2 }

extensionQueries == { q \in longQueries : q[1] = "." }

\* The step in which the addScan of call c returns.
addScanReturns(c) == calls[c].pc = "extract" /\ calls'[c].pc = "idle"

\* C1: a query that is empty or has fewer than 2 characters gets the empty
\* sequence in every reachable catalog state, whatever the indexes hold.
C1_ShortQueryReturnsEmpty ==
  \A query \in Queries : \A options \in SearchOptions :
    Len(query) < 2 => search(query, options) = <<>>

\* C1 witness: the catalog holds records whose indexed names contain the
\* one-character query "a".
C1_Witness ==
  /\ <<"a">> \in Queries
  /\ \E i \in DOMAIN indexes.nameIndex : contains(indexes.nameIndex[i].key, <<"a">>)

\* C2 as stated: an extension query returns exactly the set of the catalog
\* records whose extension is the lower-cased query.
C2_ExtensionQueryReturnsExactSet ==
  \A query \in extensionQueries : \A options \in SearchOptions :
    { withoutScore(r) : r \in Range(search(query, options)) }
      = { f \in Range(data.files) : f.extension = toLowerCase(query) }

\* C2 amended: an extension query returns only catalog records whose extension
\* is the lower-cased query, as many of them as there are up to the limit, and
\* all of them when they are no more than the limit.
C2_ExtensionQueryUpToLimit ==
  \A query \in extensionQueries : \A options \in SearchOptions :
    LET result == search(query, options)
        matching == SelectSeq(data.files, LAMBDA f : f.extension = toLowerCase(query))
    IN  /\ \A i \in DOMAIN result : withoutScore(result[i]) \in Range(matching)
        /\ Len(result) = Min(effectiveLimit(options), Len(matching))
        /\ Len(matching) <= effectiveLimit(options)
             => Range(matching) \subseteq { withoutScore(r) : r \in Range(result) }

\* C2 witness: several records have the extension ".c", another record has
\* ".c" inside its name and path only, and a limit of one cuts the answer.
C2_Witness ==
  /\ Cardinality({ i \in DOMAIN data.files : data.files[i].extension = <<".", "c">> }) >= 2
  /\ \E i \in DOMAIN data.files :
       /\ data.files[i].extension # <<".", "c">>
       /\ contains(data.files[i].name, <<".", "c">>)
  /\ Len(search(<<".", "c">>, [limit |-> 1])) = 1
  /\ Len(search(<<".", "C">>, <<>>)) >= 2

\* C3 as stated: a record whose name is the query, letter case disregarded,
\* is among the results, with the greatest score of the results so named.
C3_ExactNameIsFound ==
  \A query \in longQueries :
    LET result == search(query, <<>>)
        named(r) == toLowerCase(r.name) = toLowerCase(query)
    IN  \A f \in Range(data.files) :
          named(f) =>
            \E i \in DOMAIN result :
              /\ withoutScore(result[i]) = f
              /\ \A j \in DOMAIN result :
                   named(result[j]) => result[j].relevanceScore <= result[i].relevanceScore

\* C4: the score of every result is 100 for a name equal to the query, else 50
\* for a name containing it, plus 30 for a title containing it, plus 10 for a
\* content containing it, letter case disregarded; at most 140.
C4_ScoreIsSumOfSignals ==
  \A query \in longQueries : \A options \in SearchOptions :
    LET result == search(query, options)
        q == toLowerCase(query)
        nameSignal(r) == IF toLowerCase(r.name) = q THEN 100
                         ELSE IF contains(toLowerCase(r.name), q) THEN 50 ELSE 0
        titleSignal(r) == IF contains(toLowerCase(r.title), q) THEN 30 ELSE 0
        contentSignal(r) == IF contains(toLowerCase(r.content), q) THEN 10 ELSE 0
    IN  \A i \in DOMAIN result :
          /\ result[i].relevanceScore
               = nameSignal(result[i]) + titleSignal(result[i]) + contentSignal(result[i])
          /\ result[i].relevanceScore <= 140

\* C4 witness: a result earns the name, title and content points at once, and
\* another earns the points of a name that only contains the query.
C4_Witness ==
  /\ \E i \in DOMAIN search(<<"s", ".", "c">>, <<>>) :
       search(<<"s", ".", "c">>, <<>>)[i].relevanceScore = 140
  /\ \E i \in DOMAIN search(<<"a", "b">>, <<>>) :
       search(<<"a", "b">>, <<>>)[i].relevanceScore = 90

\* The order of two neighbours of a result list.
inResultOrder(a, b) ==
  \/ a.relevanceScore > b.relevanceScore
  \/ /\ a.relevanceScore = b.relevanceScore
     /\ a.isDirectory /\ ~b.isDirectory
  \/ /\ a.relevanceScore = b.relevanceScore
     /\ a.isDirectory = b.isDirectory
     /\ localeCompare(a.name, b.name) <= 0

\* C5: any two adjacent results are ordered by score descending, then
\* directories before files, then name ascending.
C5_ResultsAreOrdered ==
  \A query \in longQueries : \A options \in SearchOptions :
    LET result == search(query, options)
    IN  \A i \in 1..(Len(result) - 1) : inResultOrder(result[i], result[i + 1])

\* C5 witness: one answer has a directory and a file of equal score next to
\* each other, another has two files of equal score and different names.
C5_Witness ==
  /\ \E i \in 1..(Len(search(<<"a", "b">>, <<>>)) - 1) :
       LET result == search(<<"a", "b">>, <<>>) IN
       /\ result[i].relevanceScore = result[i + 1].relevanceScore
       /\ result[i].isDirectory /\ ~result[i + 1].isDirectory
  /\ \E i \in 1..(Len(search(<<".", "c">>, <<>>)) - 1) :
       LET result == search(<<".", "c">>, <<>>) IN
       /\ result[i].relevanceScore = result[i + 1].relevanceScore
       /\ result[i].isDirectory = result[i + 1].isDirectory
       /\ result[i].name # result[i + 1].name

\* C6 as stated: when addScan returns for a root path that a stored scan
\* already has, the records whose path starts with the root path are as many
\* as the new file list, and no older record of a path of that list remains.
C6_RescanSupersedes ==
  [][\A c \in Calls :
       (/\ addScanReturns(c)
        /\ \E i \in DOMAIN data.scans : data.scans[i].drivePath = calls[c].drivePath)
       => LET root == calls[c].drivePath
              n == Len(calls[c].files)
              total == Len(data'.files)
          IN  /\ Cardinality({ i \in 1..total : startsWith(data'.files[i].path, root) }) = n
              /\ \A i \in 1..total :
                   (\E k \in 1..n : calls[c].files[k].path = data'.files[i].path)
                     => i > total - n]_vars

\* C7: addScan removes the stored records whose path starts with the root
\* path and the stored scans whose root path starts with it, letter case
\* disregarded; it keeps every other record and scan as it was and in its
\* order; it appends the new records and the new scan after them.
C7_AddScanFrame ==
  [][\A c \in Calls :
       addScanReturns(c)
       => LET root == calls[c].drivePath
              n == Len(calls[c].files)
              keptFiles == SelectSeq(data.files, LAMBDA f : ~prefixedBy(f.path, root))
              keptScans == SelectSeq(data.scans, LAMBDA s : ~prefixedBy(s.drivePath, root))
          IN  /\ Len(data'.files) = Len(keptFiles) + n
              /\ SubSeq(data'.files, 1, Len(keptFiles)) = keptFiles
              /\ \A k \in 1..n :
                   /\ data'.files[Len(keptFiles) + k].path = calls[c].files[k].path
                   /\ data'.files[Len(keptFiles) + k].scanId = calls[c].scanId
              /\ Len(data'.scans) = Len(keptScans) + 1
              /\ SubSeq(data'.scans, 1, Len(keptScans)) = keptScans
              /\ data'.scans[Len(keptScans) + 1].id = calls[c].scanId
              /\ data'.scans[Len(keptScans) + 1].drivePath = root]_vars

\* C7 witness: after /a and then /a/ab were scanned, the records of /a whose
\* path starts with /a/ab in any letter case are gone, the other record and
\* the scan of /a are kept, and the records and the scan of /a/ab follow them.
C7_Witness ==
  /\ Len(data.scans) = 2
  /\ data.scans[1].drivePath = Root_a
  /\ data.scans[2].drivePath = Root_a_ab
  /\ Len(data.files) = 1 + Len(scanDirectorySafe(Root_a_ab))
  /\ data.files[1].name = <<"a", "-">>
  /\ \A i \in 2..Len(data.files) : startsWith(data.files[i].path, Root_a_ab \o <<sep>>)

\* C8 as stated: cleanupOldScans(k) leaves min(k, number of scans) scans, and
\* every record it leaves has the id of a scan it leaves.
C8_CleanupLeavesOwnedRecords ==
  \A k \in KeepCounts :
    LET after == cleanupOldScansResult(data, k).data
    IN  /\ Len(after.scans) = Min(k, Len(data.scans))
        /\ \A i \in DOMAIN after.files :
             \E j \in DOMAIN after.scans : after.scans[j].id = after.files[i].scanId

\* C9 as stated: with more than k scans, cleanupOldScans(k) keeps k scans,
\* none of them older than a scan it drops, and returns the number of records
\* of the scans it drops.
C9_CleanupReturnsDroppedRecords ==
  \A k \in KeepCounts :
    Len(data.scans) > k
    => LET r == cleanupOldScansResult(data, k)
           kept == Range(r.data.scans)
           dropped == Range(data.scans) \ kept
           recordsOf(s) == Cardinality({ i \in DOMAIN data.files : data.files[i].scanId = s.id })
           droppedRecords == sumSeq([i \in DOMAIN data.scans |->
                                       IF data.scans[i] \in dropped
                                       THEN recordsOf(data.scans[i]) ELSE 0])
       IN  /\ Len(r.data.scans) = k
           /\ kept \subseteq Range(data.scans)
           /\ \A s \in kept : \A d \in dropped : s.scanDate >= d.scanDate
           /\ r.returned = droppedRecords

\* C10: while an addScan is in flight, none of its steps before the last
\* changes the catalog or the indexes; the step that does comes when every
\* batch has settled, and it stores all the new records, the scan with its
\* counters over all of them, and indexes rebuilt from the catalog it leaves.
C10_IngestionIsAtomic ==
  [][\A c \in Calls :
       (calls[c].pc = "extract" /\ calls'[c] # calls[c])
       => IF calls'[c].pc = "extract"
          THEN data' = data /\ indexes' = indexes
          ELSE LET n == Len(calls[c].files)
                   first == Len(data'.files) - n
                   scan == data'.scans[Len(data'.scans)]
                   visible == getFilesByScanIn(calls[c].scanId, data'.files, indexes')
               IN  /\ calls[c].pending = {}
                   /\ Len(calls[c].enhancedFiles)
                        + Cardinality(batchOrdinals(calls[c].files, calls[c].i)) = n
                   /\ first >= 0
                   /\ \A k \in 1..n :
                        /\ data'.files[first + k].path = calls[c].files[k].path
                        /\ data'.files[first + k].scanId = calls[c].scanId
                        /\ data'.files[first + k] \in Range(visible)
                   /\ scan.id = calls[c].scanId
                   /\ scan.totalFiles + scan.totalFolders = n
                   /\ indexes' = buildIndexes(data'.files)]_vars

\* C10 witness: an addScan is in its second batch, holds the records of its
\* first batch, and the catalog has no record of the directory it scans.
C10_Witness ==
  \E c \in Calls :
    /\ calls[c].pc = "extract"
    /\ calls[c].i = batchSize
    /\ Len(calls[c].enhancedFiles) = batchSize
    /\ calls[c].pending # {}
    /\ \A i \in DOMAIN data.files : ~startsWith(data.files[i].path, calls[c].drivePath)

\* What the extractor answers for a file of the walk, and whether that answer
\* is a failure: the extractor gives a reason exactly when it extracted nothing.
extractionOf(file) == extractContent(file.path, [size |-> file.size])

extractionFailed(file) == "reason" \in DOMAIN extractionOf(file)

\* The positions of the catalog d that hold a record of scan scanId for path p.
recordsOf(d, scanId, p) ==
  { i \in 1..Len(d.files) : d.files[i].scanId = scanId /\ d.files[i].path = p }

\* The files of call c come out of its addScan as they should: each has a
\* record under the call's scanId, and a failed extraction is recorded as
\* such with its reason.
filesRecorded(c) ==
  \A k \in 1..Len(calls[c].files) :
    LET file == calls[c].files[k]
        at == recordsOf(data', calls[c].scanId, file.path)
    IN  /\ at # {}
        /\ extractionFailed(file) =>
             \A i \in at : /\ data'.files[i].extractable = FALSE
                           /\ data'.files[i].extractionReason = extractionOf(file).reason
                           /\ data'.files[i].extractionReason # ""

\* C11: when addScan returns, the catalog holds exactly one record with the
\* new scanId for each file it was given, and each file whose extraction
\* failed is among them with extractable = false and its reason.
C11_EveryFileIsRecordedOnce ==
  [][\A c \in Calls : addScanReturns(c) =>
       /\ filesRecorded(c)
       /\ \A k \in 1..Len(calls[c].files) :
            Cardinality(recordsOf(data', calls[c].scanId, calls[c].files[k].path)) = 1]_vars

\* What holds of C11 in every step: no file of the call is left out, and the
\* failed extractions are recorded with their reasons.
C11_EveryFileIsRecorded ==
  [][\A c \in Calls : addScanReturns(c) => filesRecorded(c)]_vars

\* The step in which the addScan of call c starts and takes its scanId.
addScanStarts(c) == calls[c].pc = "walk" /\ calls'[c].pc = "extract"

\* The scanIds taken before this step that the state still shows: those of
\* the stored scans and those of the addScan calls in flight.
scanIdsInUse ==
  { data.scans[i].id : i \in 1..Len(data.scans) }
    \cup { calls[d].scanId : d \in { e \in Calls : calls[e].pc = "extract" } }

\* C12: the scanId an addScan call takes is greater than every scanId taken
\* before it, also when the clock has not advanced since.
C12_ScanIdsStrictlyIncrease ==
  [][\A c \in Calls : addScanStarts(c) =>
       \A id \in scanIdsInUse : calls'[c].scanId > id]_vars

\* What the delete-scan handler answers once the catalog is there.
deleteScanReply(d, scanId) ==
  WithValue(deleteScanResult(d, scanId), LAMBDA r :
    IF buildIndexesThrows(r.data.files)
    THEN [success |-> FALSE, error |-> "text.toLowerCase is not a function"]
    ELSE [success |-> TRUE, deletedCount |-> r.returned])

\* The ids of the stored scans.
storedScanIds == { data.scans[i].id : i \in 1..Len(data.scans) }

\* C17: deleteScan(id) with an id that no stored scan has answers "not
\* found", which is not a success, and leaves the catalog as it is.
C17_UnknownScanIsNotFound ==
  \A scanId \in ScanIds \ storedScanIds :
    /\ deleteScanReply(data, scanId).success = FALSE
    /\ deleteScanResult(data, scanId).data = data

C20_EveryRecordHasOneScan ==
  \A i \in 1..Len(data.files) :
    Cardinality({ j \in 1..Len(data.scans) : data.scans[j].id = data.files[i].scanId }) = 1

\* A snapshot file a reader can take as it is: no file, or the whole text of
\* one catalog.
wholeSnapshot(file) ==
  \/ file.kind = "absent"
  \/ file.kind = "json" /\ isCatalog(file.doc)

\* C13: whatever saveData calls of the load, of addScan's timer and of the
\* handlers interleave, no step leaves a snapshot file that is there and is
\* not the whole text of one catalog.
C13_SnapshotIsNeverPartial ==
  [][wholeSnapshot(disk.db) => wholeSnapshot(disk'.db)]_vars

\* The step in which loadData has read the snapshot file.
loadDataReads == fileDB = "reading" /\ fileDB' = "read"

\* The catalog in memory is another after the step.
catalogChanges == data' # data \/ indexes' # indexes

\* C14: the catalog that JSON.parse reads from the text JSON.stringify makes
\* of a catalog is that catalog, scans and records at their positions, and the
\* indexes built from it are the indexes in use: so for every catalog a step
\* leaves in memory, and so for the snapshot of the earlier run when loadData
\* reads it.
C14_SaveThenLoadReproduces ==
  [][/\ (catalogChanges /\ isCatalog(data')) =>
          \E loaded \in {parse(stringify(data'))} :
            /\ loaded = data'
            /\ buildIndexes(loaded.files) = indexes'
     /\ (loadDataReads /\ disk.db = writtenFile(stringify(earlierCatalog))) =>
          /\ data' = earlierCatalog
          /\ indexes' = buildIndexes(earlierCatalog.files)]_vars

\* The snapshot file holds the saved text of the catalog in memory, which has
\* two scans and a record whose content has a line feed.
C14_Witness ==
  /\ isCatalog(data)
  /\ Len(data.scans) = 2
  /\ \E i \in 1..Len(data.files) : inSeq("\n", data.files[i].content)
  /\ disk.db = writtenFile(stringify(data))
  /\ \A k \in 1..Len(saves) : saves[k].pc = "returned"

\* The snapshot file holds the whole text of a catalog.
readableSnapshot == disk.db.kind = "json" /\ isCatalog(disk.db.doc)

\* C15: when loadData finds no snapshot, or one that is no text of a catalog,
\* it leaves the empty catalog with empty indexes in memory and starts the
\* save of a fresh empty snapshot.
C15_FailedLoadLeavesEmptyCatalog ==
  [][(loadDataReads /\ ~readableSnapshot) =>
       /\ data' = emptyCatalog
       /\ indexes' = emptyIndexes
       /\ Len(saves') = Len(saves) + 1
       /\ saves'[Len(saves')].doc = stringify(emptyCatalog)]_vars

\* What holds of C15: so it is when the snapshot is missing or is no JSON
\* text and nothing was ingested while the file was read.
C15_MissingSnapshotLeavesEmptyCatalog ==
  [][(loadDataReads /\ disk.db.kind # "json" /\ data = emptyCatalog) =>
       /\ data' = emptyCatalog
       /\ indexes' = emptyIndexes
       /\ Len(saves') = Len(saves) + 1
       /\ saves'[Len(saves')].doc = stringify(emptyCatalog)]_vars

\* loadData has returned: the file was read and the save of its catch, if it
\* made one, has returned.
loadCompleted ==
  /\ fileDB = "read"
  /\ \A k \in 1..Len(saves) : saves[k].by # "loadData"

\* What the search-files handler answers.
searchFilesReply(query) ==
  IF fileDB = "undefined"
  THEN [success |-> FALSE, error |-> "Database not initialized"]
  ELSE [success |-> TRUE,
        files |-> IF isCatalog(data)
                  THEN searchFilesIn(query, [limit |-> 1000], data.files, indexes)
                  ELSE <<>>]

\* C16: as long as loadData has not returned, a catalog operation is answered
\* "not ready", and no step but the load's own changes what is in memory.
C16_NotReadyBeforeLoad ==
  [][~loadCompleted =>
       /\ \A query \in Queries : searchFilesReply(query).success = FALSE
       /\ loadDataReads \/ (data' = data /\ indexes' = indexes)]_vars

\* The queries typed while the snapshot is followed.
StoreQueries ==
  { <<"h", "e", "l", "l", "o">>,
    <<"H", "e", "l", "l", "o">>,
    <<"h", "e">>,
    <<"h">>,
    <<"l", "l", "o">>,
    <<"l", "o", " ", "w">>,
    <<"m", "e", ".">>,
    <<".", "m", "d">>,
    <<"a", "b">> }

\* The tokens of a text: its runs of word characters, in lower case, of two
\* or more characters.
tokensOf(text) ==
  LET lower == toLowerCase(text)
      isWord(i) == lower[i] \in (WordChars \cup HangulChars)
      starts == { i \in 1..Len(lower) : isWord(i) /\ (i = 1 \/ ~isWord(i - 1)) }
      ends == { j \in 1..Len(lower) : isWord(j) /\ (j = Len(lower) \/ ~isWord(j + 1)) }
      endOf(i) == CHOOSE j \in ends : j >= i /\ \A k \in ends : k >= i => j <= k
  IN  { SubSeq(lower, i, endOf(i)) : i \in { k \in starts : endOf(k) > k } }

\* A token of the content or of the title of the record contains the query.
tokenContains(file, query) ==
  \E token \in tokensOf(file.content) \cup tokensOf(file.title) :
    contains(token, toLowerCase(query))

\* The query occurs in the name, the title, the content or the path.
matchesSomewhere(file, query) ==
  \E text \in {file.name, file.title, file.content, file.path} :
    contains(toLowerCase(text), toLowerCase(query))

\* The options the search-files handler passes.
handlerOptions == [limit |-> 1000]

\* The result for the record of that name, if the results have one.
resultsNamed(results, name) == { k \in 1..Len(results) : results[k].name = name }

\* The catalog holds the scan of /m.
ingested_m == \E j \in 1..Len(data.scans) : data.scans[j].drivePath = Root_m

\* The scenario of C18: with /m ingested, "hello" finds readme.md and
\* notes.txt, each with a score of 10 or more, and not photo.png.
helloScenario ==
  ingested_m =>
    \E results \in {search(<<"h", "e", "l", "l", "o">>, handlerOptions)} :
      /\ \A name \in { <<"r", "e", "a", "d", "m", "e", ".", "m", "d">>, <<"n", "o", "t", "e", "s", ".", "t", "x", "t">> } :
           /\ resultsNamed(results, name) # {}
           /\ \A k \in resultsNamed(results, name) : results[k].relevanceScore >= 10
      /\ resultsNamed(results, <<"p", "h", "o", "t", "o", ".", "p", "n", "g">>) = {}

\* What search answers for the query under the options is as C18 says: every
\* record with a token that contains the query is there, and every record
\* that is there has the query in its name, title, content or path.
answersAsClaimed(query, options) ==
  \E results \in {search(query, options)} :
    /\ \A i \in 1..Len(data.files) :
         tokenContains(data.files[i], query) =>
           \E k \in 1..Len(results) : withoutScore(results[k]) = data.files[i]
    /\ \A k \in 1..Len(results) : matchesSomewhere(results[k], query)

\* C18 as stated: once a step has left a catalog, for every query search
\* returns every record whose content or title has a token containing the
\* query and no record that has the query in none of name, title, content and
\* path; with /m ingested, "hello" finds readme.md and notes.txt with scores
\* of 10 or more and not photo.png.
C18_SearchFindsTokens ==
  [][(catalogChanges /\ isCatalog(data')) =>
       /\ \A query \in StoreQueries : answersAsClaimed(query, handlerOptions)'
       /\ helloScenario']_vars

\* C18 for the queries search takes: so it is for every query of two or more
\* characters whose matches fit the limit.
C18_SearchFindsTokensOfLongQueries ==
  [][(catalogChanges /\ isCatalog(data')) =>
       /\ \A query \in { q \in StoreQueries : Len(q) >= 2 } :
            \A options \in SearchOptions :
              (Len(search(query, handlerOptions)) <= effectiveLimit(options)
                 => answersAsClaimed(query, options))'
       /\ helloScenario']_vars

\* /m is ingested next to the catalog of the earlier run, and "hello" has
\* its two results.
C18_Witness ==
  /\ isCatalog(data)
  /\ ingested_m
  /\ Len(data.scans) = 2
  /\ Len(search(<<"h", "e", "l", "l", "o">>, handlerOptions)) = 2

\* The counters of a scan, computed over a sequence of records as addScan and
\* getStats compute them.
countersOver(records) ==
  [totalFiles |-> count(records, LAMBDA f : ~f.isDirectory),
   totalFolders |-> count(records, LAMBDA f : f.isDirectory),
   totalSize |-> sumSeq([i \in 1..Len(records) |-> records[i].size]),
   extractableFiles |-> count(records, LAMBDA f : f.extractable),
   totalContentLength |-> sumSeq([i \in 1..Len(records) |-> records[i].contentLength])]

\* The counters a stored scan carries.
countersOf(scan) == [f \in DOMAIN countersOver(<<>>) |-> scan[f]]

\* C21: when addScan returns, the counters of the scan it stored are the
\* aggregates over the records the catalog holds under that scanId: files,
\* folders, sizes, extractable records and content lengths.
C21_CountersMatchOwnedRecords ==
  [][\A c \in Calls : addScanReturns(c) =>
       countersOf(data'.scans[Len(data'.scans)])
         = countersOver(SelectSeq(data'.files,
                                  LAMBDA f : f.scanId = calls[c].scanId))]_vars

\* What holds of C21 in every step: the counters are the aggregates over the
\* records the call appended.
C21_CountersMatchIngestedRecords ==
  [][\A c \in Calls : addScanReturns(c) =>
       countersOf(data'.scans[Len(data'.scans)])
         = countersOver(SubSeq(data'.files,
                               Len(data'.files) - Len(calls[c].files) + 1,
                               Len(data'.files)))]_vars

C23_RecentScansAreTheLatest ==
  \A limit \in RecentLimits :
    LET recent == getRecentScansIn(data.scans, limit)
        returned == Range(recent)
        stored == Range(data.scans)
    IN  /\ Len(recent) = Min(limit, Len(data.scans))
        /\ returned \subseteq stored
        /\ \A i, j \in 1..Len(recent) : i < j => /\ recent[i] # recent[j]
                                                 /\ recent[i].scanDate >= recent[j].scanDate
        /\ \A s \in stored \ returned : \A r \in returned : r.scanDate >= s.scanDate

\* C23 witness: the catalog stores an earlier scan before a later one;
\* getRecentScans(20) returns the later one first and getRecentScans(1) the
\* later one alone.
C23_Witness ==
  /\ Len(data.scans) = 2
  /\ data.scans[1].scanDate < data.scans[2].scanDate
  /\ getRecentScansIn(data.scans, 20) = <<data.scans[2], data.scans[1]>>
  /\ getRecentScansIn(data.scans, 1) = <<data.scans[2]>>

\* What getFilesByScan(scanId) returns in the current state.
filesByScan(scanId) == getFilesByScanIn(scanId, data.files, indexes)

\* The records the addScan of call c appends in the step in which it returns.
ingestedBy(c) ==
  SubSeq(data'.files, Len(data'.files) - Len(calls[c].files) + 1, Len(data'.files))

\* C24: in every state getFilesByScan(scanId) returns the stored records with
\* that scanId, in the order they are stored in; and for the scanId an addScan
\* call returns it returns the records that call ingested, whatever other
\* calls there are.
C24_FilesByScanAreTheIngested ==
  [][/\ \A scanId \in ScanIds :
          filesByScan(scanId) = SelectSeq(data.files, LAMBDA f : f.scanId = scanId)
     /\ \A c \in Calls : addScanReturns(c) =>
          getFilesByScanIn(calls[c].scanId, data'.files, indexes') = ingestedBy(c)]_vars

\* What holds of C24 in every state: getFilesByScan(scanId) returns the stored
\* records with that scanId, in the order they are stored in.
C24_FilesByScanAreTheOwned ==
  \A scanId \in ScanIds :
    filesByScan(scanId) = SelectSeq(data.files, LAMBDA f : f.scanId = scanId)

\* The files the extractor is handed: every file of every directory of the
\* file system as the walk reports it, the same files with a size at and just
\* above the ceiling, and files that are gone by the time they are read.
ExtractorInputs ==
  LET walked == Range(flatten(<<scanDirectorySafe(Root_a), scanDirectorySafe(Root_a_ab),
                                scanDirectorySafe(Root_m), scanDirectorySafe(Root_j)>>))
      gone == { <<"/", "a", "/", "x", ".", "c">>, <<"/", "a", "/", "x", ".", "p", "d", "f">>,
                <<"/", "a", "/", "x">> }
  IN  { [path |-> f.path, size |-> f.size] : f \in walked }
        \cup { [path |-> f.path, size |-> maxFileSize] : f \in walked }
        \cup { [path |-> f.path, size |-> maxFileSize + 1] : f \in walked }
        \cup { [path |-> g, size |-> 1] : g \in gone }

\* The extraction failed for one of the reasons the extractor knows: the file
\* is too large, its extension is unsupported or title-only, it is a
\* directory, or it cannot be read.
failsToExtract(file) ==
  LET ext == toLowerCase(extname(file.path)) IN
  \/ file.size > maxFileSize
  \/ ext \notin textExtensions
  \/ ~fsHasEntry(file.path)
  \/ fsEntry(file.path).isDirectory
  \/ ~fsEntry(file.path).readable

\* What the extractor does with the file is as C25 says.
extractsAsClaimed(file) ==
  LET result == extractContent(file.path, [size |-> file.size]) IN
  /\ {"title", "content", "extractable"} \subseteq DOMAIN result
  /\ failsToExtract(file) =>
       /\ result.extractable = FALSE
       /\ "reason" \in DOMAIN result
       /\ result.reason # ""
  /\ ~failsToExtract(file) => result.extractable = TRUE /\ "reason" \notin DOMAIN result
  /\ file.size > maxFileSize =>
       /\ result.reason = "File too large"
       /\ ~extractAwaitsIO(file.path, [size |-> file.size])
  /\ (file.size <= maxFileSize /\ fsHasEntry(file.path) /\ fsEntry(file.path).isDirectory
        /\ toLowerCase(extname(file.path)) \in textExtensions)
       => result.reason = "Directory"

\* Every file the extractor can be handed is dealt with as C25 says.
extractsAllAsClaimed == \A file \in ExtractorInputs : extractsAsClaimed(file)

\* C25: the extractor returns a result for every file; every failure (too
\* large, unsupported or title-only extension, directory, read error) has
\* extractable = false and a reason; a file above the ceiling of 5 MiB is
\* turned away before anything is read, whatever its extension.  So it is for
\* every file the extractor can be handed and for the files whose extraction
\* is in flight.
C25_ExtractorAlwaysAnswers ==
  /\ maxFileSize = 5 * 1024 * 1024
  /\ extractsAllAsClaimed
  /\ \A c \in Calls : \A k \in calls[c].pending :
       /\ calls[c].files[k].size <= maxFileSize
       /\ extractsAsClaimed(calls[c].files[k])

\* C25 witness: a scan has been through the extractor with a file above the
\* ceiling that has a text extension, a file that cannot be read, and files
\* of unsupported type.
C25_Witness ==
  \E c \in Calls :
    /\ calls[c].pc = "extract"
    /\ \E k \in 1..Len(calls[c].enhancedFiles) :
         /\ calls[c].enhancedFiles[k].extractionReason = "File too large"
         /\ calls[c].enhancedFiles[k].extension \in textExtensions
         /\ calls[c].enhancedFiles[k].extractable = FALSE
    /\ \E k \in 1..Len(calls[c].enhancedFiles) :
         calls[c].enhancedFiles[k].extractionReason = "Binary or encoding issue"
    /\ \E k \in 1..Len(calls[c].enhancedFiles) :
         calls[c].enhancedFiles[k].extractionReason = "Unsupported file type"

\* The ordinal i is registered under the key in the index map.
registered(indexMap, key, i) == mapHas(indexMap, key) /\ inSeq(i, mapGet(indexMap, key))

\* The lower-cased segments of a path that the path index takes.
pathSegments(p) ==
  { part \in Range(splitChar(toLowerCase(p), sep, 1, <<>>)) : Len(part) > 2 }

\* Every ordinal an index stores is a position of data.files, and the record
\* there carries the key it is stored under.
indexesSound ==
  LET files == data.files
      carried(indexMap, Carries(_, _)) ==
        \A e \in 1..Len(indexMap) : \A k \in 1..Len(indexMap[e].ids) :
          /\ indexMap[e].ids[k] \in 1..Len(files)
          /\ Carries(files[indexMap[e].ids[k]], indexMap[e].key)
  IN  /\ carried(indexes.nameIndex, LAMBDA f, key : contains(toLowerCase(f.name), key))
      /\ carried(indexes.titleIndex, LAMBDA f, key : contains(toLowerCase(f.title), key))
      /\ carried(indexes.contentIndex, LAMBDA f, key : contains(toLowerCase(f.content), key))
      /\ carried(indexes.extensionIndex, LAMBDA f, key : toLowerCase(extname(f.name)) = key)
      /\ carried(indexes.pathIndex, LAMBDA f, key : key \in pathSegments(f.path))
      /\ carried(indexes.scanIndex, LAMBDA f, key : f.scanId = key)

\* Every record is registered under its keys: its scanId, its extension, the
\* segments of its path, and the tokens of its name, of its content and of a
\* title that is not its name.
indexesComplete ==
  \A i \in 1..Len(data.files) :
    LET f == data.files[i] IN
    /\ registered(indexes.scanIndex, f.scanId, i)
    /\ toLowerCase(extname(f.name)) # <<>>
         => registered(indexes.extensionIndex, toLowerCase(extname(f.name)), i)
    /\ \A part \in pathSegments(f.path) : registered(indexes.pathIndex, part, i)
    /\ \A token \in tokensOf(f.name) : registered(indexes.nameIndex, token, i)
    /\ \A token \in tokensOf(f.content) : registered(indexes.contentIndex, token, i)
    /\ (isString(f.title) /\ f.title # f.name)
         => \A token \in tokensOf(f.title) : registered(indexes.titleIndex, token, i)

\* C26: in every state the indexes are consistent with data.files: every
\* ordinal they store is a position whose record carries the key, and every
\* record is registered under its keys; no step of addScan, delete-scan,
\* clear-database or cleanupOldScans leaves records changed and indexes not
\* rebuilt.
C26_IndexesFollowTheRecords ==
  isCatalog(data) => indexesSound /\ indexesComplete

\* addScan has scheduled a flush that has not run yet.
flushScheduled == timers > 0

\* The snapshot file holds the text of the catalog in memory, and that
\* catalog holds the scan of /m.
snapshotHoldsNewScan ==
  /\ isCatalog(data)
  /\ ingested_m
  /\ disk.db = writtenFile(stringify(data))

\* The step in which addScan returns leaves the flush to the timer: no
\* saveData call is made and no file is touched.
flushIsDeferred ==
  \A c \in Calls :
    (addScanReturns(c) /\ isCatalog(data)) =>
      timers' = timers + 1 /\ saves' = saves /\ disk' = disk

\* C27: addScan returns before the flush it schedules has run, and when
\* nothing changes the catalog after it, the snapshot file comes to hold the
\* catalog in memory with the new scan.
C27_FlushFollowsAddScan ==
  /\ [][flushIsDeferred]_vars
  /\ flushScheduled ~> snapshotHoldsNewScan

\* What holds of C27: addScan returns before its flush, and the flush brings
\* the catalog with the new scan to the snapshot file when the startup load
\* has completed before it is scheduled and no other saveData call is under
\* way.
C27_FlushFollowsAddScanWhenAlone ==
  /\ [][flushIsDeferred]_vars
  /\ (/\ flushScheduled
      /\ fileDB = "read"
      /\ \A k \in 1..Len(saves) : saves[k].pc = "returned"
      /\ isCatalog(data)
      /\ ingested_m)
       ~> snapshotHoldsNewScan

\* The handlers that await saveData before they answer.
AwaitingHandlers == {"delete-scan", "clear-database", "cleanup-old-scans"}

\* The step in which the saveData call k of such a handler returns, and the
\* handler with it, the rename having found the temporary file.
handlerReturns(k) ==
  /\ k <= Len(saves)
  /\ saves[k].by \in AwaitingHandlers
  /\ saves[k].pc = "rename"
  /\ saves'[k].pc = "returned"
  /\ disk.tmp.kind # "absent"

\* C28: when cleanup-old-scans, delete-scan or clear-database returns and no
\* file operation of its saveData call has failed, the snapshot file holds
\* the text of the catalog the handler left in memory.
C28_SnapshotWrittenAtReturn ==
  [][\A k \in 1..MaxSaves :
       handlerReturns(k) => disk'.db = writtenFile(saves[k].doc)]_vars

\* What holds of C28: the snapshot file holds the handler's catalog when the
\* handler returns, unless another saveData call has opened the temporary
\* file and has not returned yet.
C28_SnapshotWrittenAtReturnWhenAlone ==
  [][\A k \in 1..MaxSaves :
       (/\ handlerReturns(k)
        /\ \A j \in 1..Len(saves) : j = k \/ saves[j].pc \in {"open", "returned"})
         => disk'.db = writtenFile(saves[k].doc)]_vars

\* The step in which a file operation of the saveData call k fails.
saveFailsAt(k) == SaveFails(k) \/ (disk.tmp.kind = "absent" /\ SaveRename(k))

\* A saveData call has failed before.
aSaveHasFailed == \E j \in 1..Len(saves) : saves[j] = caughtSave

\* The step starts a saveData call that takes the catalog as the step leaves it.
savesTheCatalog ==
  /\ Len(saves') = Len(saves) + 1
  /\ saves'[Len(saves')].pc = "open"
  /\ saves'[Len(saves')].doc = stringify(data')

\* C29: a file operation that fails inside saveData leaves the catalog and the
\* indexes as they are, the call returns and its handler answers success, and
\* after it every step that changes the catalog starts a saveData call with
\* the catalog it leaves, addScan through its timer.
C29_SaveFailureIsCaught ==
  [][/\ \A k \in 1..MaxSaves :
          (saveFailsAt(k) =>
             /\ data' = data
             /\ indexes' = indexes
             /\ saves'[k].pc = "returned"
             /\ answerAfterSave(saves'[k]).success)
      /\ ((aSaveHasFailed /\ data' # data /\ fileDB' = fileDB) =>
            (timers' = timers + 1 \/ savesTheCatalog))
      /\ ((aSaveHasFailed /\ timers' = timers - 1) => savesTheCatalog)]_vars

\* C29 witness: the save of the startup has failed, /m was scanned after it
\* and the save of that scan has brought the catalog to the snapshot file.
C29_Witness ==
  /\ Len(saves) = 2
  /\ saves[1] = caughtSave
  /\ saves[2] = returnedSave
  /\ isCatalog(data)
  /\ ingested_m
  /\ disk.db = writtenFile(stringify(data))

\* The addScan call c is in its batch loop after the step.
extracting(c) == calls'[c].pc = "extract"

\* C30: an addScan call works through its files in consecutive batches of at
\* most 10; the extractions it has in flight are at most 10 and all of the
\* batch it is at; it moves on by 10 files, and only when no extraction of
\* the batch is in flight; within a batch no extraction starts later.
C30_ExtractionIsBatched ==
  [][\A c \in Calls :
       /\ extracting(c) =>
            /\ \E k \in 0..Len(calls'[c].files) : calls'[c].i = k * 10
            /\ calls'[c].i < Len(calls'[c].files)
            /\ Len(calls'[c].enhancedFiles) = calls'[c].i
            /\ Cardinality(batchOrdinals(calls'[c].files, calls'[c].i)) <= 10
            /\ calls'[c].pending \subseteq batchOrdinals(calls'[c].files, calls'[c].i)
            /\ Cardinality(calls'[c].pending) <= 10
       /\ (calls[c].pc = "extract" /\ extracting(c)) =>
            IF calls'[c].i = calls[c].i
            THEN calls'[c].pending \subseteq calls[c].pending
            ELSE /\ calls[c].pending = {}
                 /\ calls'[c].i = calls[c].i + 10]_vars

\* C30 witness: an addScan call over the eleven files of /a/ab is at its
\* second batch, the ten files of the first processed and the extraction of
\* the eleventh in flight.
C30_Witness ==
  \E c \in Calls :
    /\ calls[c].pc = "extract"
    /\ Len(calls[c].files) = 11
    /\ calls[c].i = 10
    /\ Len(calls[c].enhancedFiles) = 10
    /\ calls[c].pending = {11}

\* Every match of the query, scored and sorted, before searchFiles cuts it.
sortedMatches(query) ==
  WithValue(toLowerCase(query), LAMBDA queryLower :
    sortResults(scoredResults(queryLower, searchCandidates(queryLower, indexes),
                              data.files)))

\* The answer is the first records of the sorted matches and no more than n.
isPrefixUpTo(result, n, query) ==
  /\ Len(result) <= n
  /\ Len(result) <= Len(sortedMatches(query))
  /\ result = SubSeq(sortedMatches(query), 1, Len(result))

\* C31: for every limit >= 0 the answer of searchFiles has at most limit
\* records and is a prefix of the sorted matches, and without a limit it has
\* at most 1000.
C31_LimitCutsTheSortedMatches ==
  \A query \in longQueries :
    /\ \A limit \in SearchLimits :
         isPrefixUpTo(search(query, [limit |-> limit]), limit, query)
    /\ isPrefixUpTo(search(query, <<>>), 1000, query)

\* What holds of C31: a limit of 1 or more cuts the sorted matches to their
\* first limit records, and a limit of 0 does what no limit does: it cuts
\* them to their first 1000.
C31_LimitOfZeroIsNoLimit ==
  \A query \in longQueries :
    /\ \A limit \in SearchLimits :
         search(query, [limit |-> limit])
           = slice0(sortedMatches(query), IF limit = 0 THEN 1000 ELSE limit)
    /\ search(query, <<>>) = slice0(sortedMatches(query), 1000)

\* Every scan and every record the catalog holds is in the catalog after the
\* step.
catalogIsKept ==
  isCatalog(data) =>
    /\ \A j \in 1..Len(data.scans) :
         /\ isCatalog(data')
         /\ \E k \in 1..Len(data'.scans) : data'.scans[k] = data.scans[j]
    /\ \A i \in 1..Len(data.files) :
         /\ isCatalog(data')
         /\ \E k \in 1..Len(data'.files) : data'.files[k] = data.files[i]

\* The step is one of those that may remove scans and records: the return of
\* an addScan, or delete-scan, clear-database or cleanup-old-scans.
aRemoverActs ==
  \/ \E c \in Calls : addScanReturns(c)
  \/ /\ Len(saves') = Len(saves) + 1
     /\ saves'[Len(saves')].by \in AwaitingHandlers

\* C32: the scans and records in memory stay there until an addScan,
\* delete-scan, clear-database or cleanup-old-scans removes them; the startup
\* load, whenever it completes, removes none.
C32_OnlyRemoversRemove ==
  [][catalogIsKept \/ aRemoverActs]_vars

\* What holds of C32: once the startup load has completed, scans and records
\* leave the catalog only by an addScan, delete-scan, clear-database or
\* cleanup-old-scans.
C32_OnlyRemoversRemoveAfterLoad ==
  [][fileDB = "read" => (catalogIsKept \/ aRemoverActs)]_vars

\* The step is one of the four queries.
aQueryActs == GetRecentScans \/ GetLatestFiles \/ GetFilesByScan \/ GetStats

\* C33: getRecentScans, getLatestFiles, getFilesByScan and getStats leave the
\* scans, in their order, the records and the indexes as they are.
C33_QueriesAreReadOnly ==
  [][aQueryActs => (data' = data /\ indexes' = indexes)]_vars

\* What holds of C33: the four queries leave the records and the indexes as
\* they are and the scans the same scans; getFilesByScan and getStats leave
\* their order too, getRecentScans and getLatestFiles leave them sorted by
\* scanDate, latest first.
C33_QueriesKeepAllButScanOrder ==
  [][/\ aQueryActs =>
          /\ data'.files = data.files
          /\ indexes' = indexes
          /\ data'.scans \in {data.scans, sortByScanDate(data.scans)}
          /\ Range(data'.scans) = Range(data.scans)
          /\ Len(data'.scans) = Len(data.scans)
     /\ (GetFilesByScan \/ GetStats) => data' = data]_vars

\* No two scans of the catalog d have root paths that are equal when letter
\* case is disregarded.
oneScanPerRoot(d) ==
  \A j, k \in 1..Len(d.scans) :
    j # k => toLowerCase(d.scans[j].drivePath) # toLowerCase(d.scans[k].drivePath)

\* C34: from the empty catalog, whatever addScan, delete-scan, clear-database
\* and cleanup-old-scans steps are taken, no two scans have root paths equal
\* up to letter case, and the scan an addScan appends is the only scan of its
\* root when the addScan returns.
C34_OneScanPerRoot ==
  [][/\ oneScanPerRoot(data')
     /\ \A c \in Calls :
          addScanReturns(c) =>
            /\ data'.scans[Len(data'.scans)].drivePath = calls[c].drivePath
            /\ \A j \in 1..(Len(data'.scans) - 1) :
                 toLowerCase(data'.scans[j].drivePath)
                   # toLowerCase(calls[c].drivePath)]_vars

\* C34 witness: /M was scanned after /m or /M had been scanned, a millisecond
\* later, and the catalog holds the later scan alone.
C34_Witness ==
  /\ invoked = 2
  /\ \A c \in Calls : calls[c].pc = "idle"
  /\ Len(data.scans) = 1
  /\ data.scans[1].drivePath = Root_M
  /\ data.scans[1].id = 2

\* The addScan of call c has worked through all its batches when it returns:
\* ceil(n / 10) of them for n files.
allBatchesDone(c) ==
  calls[c].i \div 10 + 1 = (Len(calls[c].files) + 9) \div 10

\* The catalog d holds the scan that call c is adding.
holdsScanOf(d, c) ==
  \E j \in 1..Len(d.scans) : d.scans[j].id = calls[c].scanId

\* What a step of addScan does to the catalog: nothing while the call is in
\* its batch loop, and one mutation with one rebuild of the indexes, which
\* does not throw, when it returns its scanId.
mutatesOnceAtReturn(c) ==
  /\ (calls[c].pc = "extract" /\ calls'[c].pc = "extract" /\ calls'[c] # calls[c]) =>
       (data' = data /\ indexes' = indexes)
  /\ addScanReturns(c) =>
       /\ allBatchesDone(c)
       /\ holdsScanOf(data', c)
       /\ ~buildIndexesThrows(data'.files)
       /\ indexes' = buildIndexes(data'.files)

\* C35: every addScan call returns a scanId when its extractions settle: it
\* leaves its batch loop after ceil(n / 10) batches, and it changes the
\* catalog and rebuilds the indexes once, as it returns.
C35_AddScanReturns ==
  /\ [][\A c \in Calls : mutatesOnceAtReturn(c)]_vars
  /\ \A c \in Calls : (calls[c].pc = "extract") ~> (calls[c].pc = "idle")

\* What holds of C35: every addScan call leaves its batch loop after
\* ceil(n / 10) batches and changes the catalog once, and it returns its
\* scanId with the indexes rebuilt unless buildIndexes throws at a record.
C35_AddScanEnds ==
  /\ [][\A c \in Calls :
          /\ (calls[c].pc = "extract" /\ calls'[c].pc = "extract"
                /\ calls'[c] # calls[c]) =>
               (data' = data /\ indexes' = indexes)
          /\ addScanReturns(c) =>
               /\ allBatchesDone(c)
               /\ holdsScanOf(data', c)
               /\ ~buildIndexesThrows(data'.files) =>
                    indexes' = buildIndexes(data'.files)]_vars
  /\ \A c \in Calls : (calls[c].pc = "extract") ~> (calls[c].pc = "idle")
====
